---- MODULE Spec2Model ----
(***************************************************************************)
(* Working-copy update editor of libsvn_wc (update_editor.c, status.c).    *)
(*                                                                         *)
(* Spec       one process installs a new revision of file F in directory   *)
(*            D (svn_wc_install_file), may be killed between any two       *)
(*            steps, is recovered by replaying the log, and is re-run.     *)
(* SpecLock   two processes drive delete_entry / close_directory /         *)
(*            close_file against the same directory.                       *)
(* SpecBaton  the directory and file batons of one edit and their          *)
(*            ref_count protocol.                                          *)
(* SpecNoDelta, SpecAccum, SpecDelta                                       *)
(*            close_file without a text delta; the log of                  *)
(*            svn_wc_install_file on any call; apply_textdelta and         *)
(*            window_handler window by window.                             *)
(* SpecStatus, SpecStatuses                                                *)
(*            assemble_status on any entry; svn_wc_statuses on small       *)
(*            trees.                                                       *)
(* SpecTree, SpecProps                                                     *)
(*            the directory and file callbacks on a small tree, and the    *)
(*            property changes of its directories.                         *)
(* SpecTarget svn_wc_get_actual_target on any path.                        *)
(*                                                                         *)
(* DAG layer of libsvn_fs_fs (dag.c).                                      *)
(*                                                                         *)
(* SpecDag    make_file, make_dir, svn_fs__dag_set_entry, copy,            *)
(*            clone_child, get_edit_stream, finalize_edits and the         *)
(*            ancestry queries on a small node-revision store.             *)
(* SpecWalk   svn_fs__dag_walk_predecessors, one loop iteration a step.    *)
(***************************************************************************)
EXTENDS Integers, Sequences, FiniteSets, TLC

VARIABLES
  wc,        \* the directory on disk: files, F's entry, log, lock, clock
  pc,        \* position of the updating process
  run,       \* locals of the running svn_wc_install_file call
  scen,      \* the inputs of the update U (fixed at Init)
  hist,      \* history: crashes so far, state at log close, working file at start
  status,    \* the last record returned by svn_wc_status
  ppc,       \* SpecLock: per-process position
  pop,       \* SpecLock: per-process callback being run
  adm,       \* SpecLock: lock holder, log files of the shared directory
  batons,    \* SpecBaton: baton id -> baton record
  edit,      \* SpecBaton: edit-wide state (next id, failure, checkout)
  admlog,    \* SpecBaton: administrative writes made so far
  fs,        \* SpecDag: the node-revision store, NodeId -> node revision
  dag,       \* SpecDag: the last DAG call, its arguments and its result
  walk       \* SpecWalk: locals of the running walk_predecessors call

vars == <<wc, pc, run, scen, hist, status, ppc, pop, adm, batons, edit, admlog,
          fs, dag, walk>>

instVars == <<wc, pc, run, scen, hist, status>>
lockVars == <<ppc, pop, adm>>
batonVars == <<batons, edit, admlog>>
dagVars == <<fs, dag, walk>>

----------------------------------------------------------------------------
(* Bounds and sample data                                                  *)

MaxCrashes == 2
OldRev == 5
NewRev == OldRev + 1

OldText == <<"a", "b">>
NewText == <<"a", "B">>
WorkingTexts == { <<"a", "b">>, <<"a", "b", "local">>,
                  <<"a", "X", "local">>, <<"a", "B">> }

----------------------------------------------------------------------------
(* Files                                                                   *)

FileNames == {"F", "txtb", "tmp_txtb", "outside", "tr_txtb", "tr_tmp_txtb",
              "patch", "rej", "tmp_working", "orig"}

NoFile == [exists |-> FALSE, lines |-> <<>>, eol |-> "LF", hunks |-> {},
           ro |-> FALSE, mtime |-> 0]

TextFile(l, e) == [exists |-> TRUE, lines |-> l, eol |-> e, hunks |-> {},
                   ro |-> FALSE, mtime |-> 0]

EmptyFile == TextFile(<<>>, "LF")

\* svn_wc_copy_and_translate: copy with the end-of-line marker rewritten
\* to eol_str (no rewrite when eol_str is NULL, here "").
svn_wc_copy_and_translate(src, eol_str) ==
  [src EXCEPT !.eol = IF eol_str = "" THEN src.eol ELSE eol_str,
              !.ro = FALSE, !.mtime = 0]

\* diff of two LF text-bases: one hunk per line that differs.
svn_io_run_diff(old, new) ==
  { [pos |-> i, old |-> old[i], new |-> new[i]] :
      i \in { j \in 1..Len(old) : j <= Len(new) /\ old[j] # new[j] } }

\* patch: a hunk applies where the target still has the old line, and is
\* rejected otherwise.
PatchApplies(lines, h) == h.pos <= Len(lines) /\ lines[h.pos] = h.old

PatchOut(lines, hunks) ==
  [i \in 1..Len(lines) |->
     IF \E h \in hunks : h.pos = i /\ PatchApplies(lines, h)
       THEN (CHOOSE h \in hunks : h.pos = i /\ PatchApplies(lines, h)).new
       ELSE lines[i]]

PatchRejects(lines, hunks) == { h \in hunks : ~PatchApplies(lines, h) }

\* svn_wc_text_modified_p: the working text differs from the pristine one.
svn_wc_text_modified_p(w) ==
  w.files["F"].exists /\ w.files["F"].lines # w.files["txtb"].lines

----------------------------------------------------------------------------
(* The log: commands and their replay                                      *)

\* svn_wc_keywords_t: a keyword that is not to be expanded has the value
\* "" (a NULL field); null is set for a NULL keywords pointer.
Keywords(revision, date, author, url) ==
  [null |-> FALSE, revision |-> revision, date |-> date, author |-> author,
   url |-> url]

NullKeywords == [Keywords("", "", "", "") EXCEPT !.null = TRUE]

\* A log command: arg is the eol string of a CP, the attribute of a
\* MODIFY_ENTRY, the infile of a RUN_CMD; the other attributes are
\* the kind and the value of a MODIFY_ENTRY and the attributes of a
\* translating CP.
Cmd(c, n, d, a, r) ==
  [cmd |-> c, name |-> n, dest |-> d, arg |-> a, rev |-> r, kind |-> "",
   value |-> "", repair |-> FALSE, keywords |-> NullKeywords,
   expand |-> FALSE]

NoLog == [exists |-> FALSE, cmds |-> <<>>]

\* Writing file n: the working file gets a fresh modification time.
PutFile(w, n, f) ==
  IF n = "F"
    THEN [w EXCEPT !.files[n] = [f EXCEPT !.mtime = w.clock + 1],
                   !.clock = w.clock + 1]
    ELSE [w EXCEPT !.files[n] = f]

\* One command of svn_wc__run_log.
ExecCmd(c, w) ==
  CASE c.cmd = "MV" ->
         IF w.files[c.name].exists
           THEN [PutFile(w, c.dest, [w.files[c.name] EXCEPT !.ro = FALSE])
                   EXCEPT !.files[c.name] = NoFile]
           ELSE w
    [] c.cmd = "CP" ->
         IF w.files[c.name].exists
           THEN PutFile(w, c.dest,
                        svn_wc_copy_and_translate(w.files[c.name], c.arg))
           ELSE w
    [] c.cmd = "RM" -> [w EXCEPT !.files[c.name] = NoFile]
    [] c.cmd = "READONLY" ->
         IF w.files[c.name].exists
           THEN [w EXCEPT !.files[c.name].ro = TRUE]
           ELSE w
    [] c.cmd = "RUN_CMD" ->
         IF w.files[c.name].exists /\ w.files[c.arg].exists
           THEN LET t  == w.files[c.name]
                    hs == w.files[c.arg].hunks
                    rj == PatchRejects(t.lines, hs)
                    w1 == PutFile(w, c.name,
                                  [t EXCEPT !.lines = PatchOut(t.lines, hs)])
                IN  IF rj = {} THEN w1
                    ELSE [w1 EXCEPT !.files[c.dest] =
                            [EmptyFile EXCEPT !.hunks = rj]]
           ELSE w
    [] c.cmd = "DETECT_CONFLICT" ->
         IF w.files[c.dest].exists /\ w.files[c.dest].hunks # {}
           THEN [w EXCEPT !.entry.conflicted = TRUE, !.entry.rejfile = c.dest]
           ELSE [w EXCEPT !.files[c.dest] = NoFile]
    [] c.cmd = "MODIFY_ENTRY" ->
         IF c.arg = "revision" THEN [w EXCEPT !.entry.revision = c.rev]
         ELSE IF c.arg = "text_time"
           THEN [w EXCEPT !.entry.text_time = w.files[c.name].mtime]
         ELSE w
    [] OTHER -> w

\* Replay of commands from..Len(cmds), in order.
RECURSIVE ReplayFrom(_, _, _)
ReplayFrom(cmds, from, w) ==
  IF from > Len(cmds) THEN w
  ELSE ReplayFrom(cmds, from + 1, ExecCmd(cmds[from], w))

\* svn_wc__run_log: every command in order, then the log is removed.
svn_wc__run_log(w) == [ReplayFrom(w.log.cmds, 1, w) EXCEPT !.log = NoLog]

----------------------------------------------------------------------------
(* svn_wc_install_file: the log it accumulates                             *)

\* The patch command of make_patch_open_tag: target, reject file, infile.
make_patch_open_tag(path, reject_file, patch_file) ==
  <<Cmd("RUN_CMD", path, reject_file, patch_file, 0)>>

\* The CP command of make_translation_open_tag.
make_translation_open_tag(name, dest, eol_str, repair, keywords, expand) ==
  <<[Cmd("CP", name, dest, eol_str, 0) EXCEPT
       !.repair = repair, !.keywords = keywords, !.expand = expand]>>

\* Variant: a locally modified binary file is overwritten without the
\* copy to the .orig file.
TextSection_binary_overwrite(is_locally_modified, has_binary_prop, wfile_exists, eol_style, eol_str, keywords) ==
  <<Cmd("MV", "tmp_txtb", "txtb", "", 0)>>
  \o (IF ~is_locally_modified
        THEN make_translation_open_tag("txtb", "F", eol_str, FALSE,
                                       keywords, TRUE)
      ELSE IF ~has_binary_prop
        THEN IF ~wfile_exists
               THEN make_translation_open_tag("txtb", "F", eol_str, FALSE,
                                       keywords, TRUE)
               ELSE <<Cmd("RM", "tr_txtb", "", "", 0),
                      Cmd("RM", "tr_tmp_txtb", "", "", 0)>>
                    \o (IF eol_style = "none" /\ keywords.null
                          THEN make_patch_open_tag("F", "rej", "patch")
                          ELSE make_translation_open_tag("F", "tmp_working",
                                                         "LF", TRUE,
                                                         keywords, FALSE)
                               \o make_patch_open_tag("tmp_working", "rej",
                                                      "patch")
                               \o make_translation_open_tag("tmp_working",
                                                            "F", eol_str,
                                                            FALSE, keywords,
                                                            TRUE)
                               \o <<Cmd("RM", "tmp_working", "", "", 0)>>)
                    \o <<Cmd("RM", "patch", "", "", 0),
                         Cmd("DETECT_CONFLICT", "F", "rej", "", 0)>>
      ELSE <<Cmd("CP", "txtb", "F", "", 0)>>)
  \o <<Cmd("READONLY", "txtb", "", "", 0)>>

\* Variant: the text section without the DETECT_CONFLICT command.
TextSection_no_detect(is_locally_modified, has_binary_prop, wfile_exists, eol_style, eol_str, keywords) ==
  <<Cmd("MV", "tmp_txtb", "txtb", "", 0)>>
  \o (IF ~is_locally_modified
        THEN make_translation_open_tag("txtb", "F", eol_str, FALSE,
                                       keywords, TRUE)
      ELSE IF ~has_binary_prop
        THEN IF ~wfile_exists
               THEN make_translation_open_tag("txtb", "F", eol_str, FALSE,
                                       keywords, TRUE)
               ELSE <<Cmd("RM", "tr_txtb", "", "", 0),
                      Cmd("RM", "tr_tmp_txtb", "", "", 0)>>
                    \o (IF eol_style = "none" /\ keywords.null
                          THEN make_patch_open_tag("F", "rej", "patch")
                          ELSE make_translation_open_tag("F", "tmp_working",
                                                         "LF", TRUE,
                                                         keywords, FALSE)
                               \o make_patch_open_tag("tmp_working", "rej",
                                                      "patch")
                               \o make_translation_open_tag("tmp_working",
                                                            "F", eol_str,
                                                            FALSE, keywords,
                                                            TRUE)
                               \o <<Cmd("RM", "tmp_working", "", "", 0)>>)
                    \o <<Cmd("RM", "patch", "", "", 0)>>
      ELSE <<Cmd("CP", "F", "orig", "", 0), Cmd("CP", "txtb", "F", "", 0)>>)
  \o <<Cmd("READONLY", "txtb", "", "", 0)>>

\* The text section (update_editor.c 1743-2112).
TextSection(is_locally_modified, has_binary_prop, wfile_exists, eol_style, eol_str, keywords) ==
  <<Cmd("MV", "tmp_txtb", "txtb", "", 0)>>
  \o (IF ~is_locally_modified
        THEN make_translation_open_tag("txtb", "F", eol_str, FALSE,
                                       keywords, TRUE)
      ELSE IF ~has_binary_prop
        THEN IF ~wfile_exists
               THEN make_translation_open_tag("txtb", "F", eol_str, FALSE,
                                       keywords, TRUE)
               ELSE <<Cmd("RM", "tr_txtb", "", "", 0),
                      Cmd("RM", "tr_tmp_txtb", "", "", 0)>>
                    \o (IF eol_style = "none" /\ keywords.null
                          THEN make_patch_open_tag("F", "rej", "patch")
                          ELSE make_translation_open_tag("F", "tmp_working",
                                                         "LF", TRUE,
                                                         keywords, FALSE)
                               \o make_patch_open_tag("tmp_working", "rej",
                                                      "patch")
                               \o make_translation_open_tag("tmp_working",
                                                            "F", eol_str,
                                                            FALSE, keywords,
                                                            TRUE)
                               \o <<Cmd("RM", "tmp_working", "", "", 0)>>)
                    \o <<Cmd("RM", "patch", "", "", 0),
                         Cmd("DETECT_CONFLICT", "F", "rej", "", 0)>>
      ELSE <<Cmd("CP", "F", "orig", "", 0), Cmd("CP", "txtb", "F", "", 0)>>)
  \o <<Cmd("READONLY", "txtb", "", "", 0)>>

\* An entry attribute written through the log.
Attr(attr, value) ==
  [Cmd("MODIFY_ENTRY", "F", "", attr, 0) EXCEPT !.value = value]

\* The MODIFY_ENTRY that sets kind and revision.
BumpRevision(new_revision) ==
  [Cmd("MODIFY_ENTRY", "F", "", "revision", new_revision) EXCEPT
     !.kind = "file"]

\* No property list was passed (props == NULL).
NoProps == [supplied |-> FALSE, regular |-> <<>>, entry |-> <<>>]

\* What the caller passes and what svn_wc_install_file has found out by
\* the time it accumulates the log.
Accum(new_text, is_locally_modified, has_binary_prop, wfile_exists, eol_style, eol_str, keywords, new_revision) ==
  [new_text |-> new_text, is_locally_modified |-> is_locally_modified,
   has_binary_prop |-> has_binary_prop, wfile_exists |-> wfile_exists,
   eol_style |-> eol_style, eol_str |-> eol_str, keywords |-> keywords,
   new_revision |-> new_revision, props |-> NoProps,
   prop_modified |-> FALSE, new_URL |-> ""]

\* Variant: the text_time command is written whenever the working file
\* has no local modifications.
EntryAccum_text_time_without_text(in) ==
  (IF in.props.supplied THEN <<Cmd("MERGE_PROPS", "F", "", "", 0)>>
   ELSE <<>>)
  \o [i \in 1..Len(in.props.entry) |->
        Attr(in.props.entry[i].name, in.props.entry[i].value)]
  \o (IF in.new_text
        THEN TextSection(in.is_locally_modified, in.has_binary_prop,
                         in.wfile_exists, in.eol_style, in.eol_str,
                         in.keywords)
        ELSE <<>>)
  \o <<BumpRevision(in.new_revision)>>
  \o (IF ~in.is_locally_modified
        THEN <<Cmd("MODIFY_ENTRY", "F", "", "text_time", 0)>>
        ELSE <<>>)
  \o (IF in.props.supplied /\ ~in.prop_modified
        THEN <<Cmd("MODIFY_ENTRY", "F", "", "prop_time", 0)>>
        ELSE <<>>)
  \o (IF in.new_URL # "" THEN <<Attr("url", in.new_URL)>> ELSE <<>>)

\* Variant: the url command is written with the revision, before the
\* time stamps.
EntryAccum_url_early(in) ==
  (IF in.props.supplied THEN <<Cmd("MERGE_PROPS", "F", "", "", 0)>>
   ELSE <<>>)
  \o [i \in 1..Len(in.props.entry) |->
        Attr(in.props.entry[i].name, in.props.entry[i].value)]
  \o (IF in.new_text
        THEN TextSection(in.is_locally_modified, in.has_binary_prop,
                         in.wfile_exists, in.eol_style, in.eol_str,
                         in.keywords)
        ELSE <<>>)
  \o (IF in.new_URL # "" THEN <<Attr("url", in.new_URL)>> ELSE <<>>)
  \o <<BumpRevision(in.new_revision)>>
  \o (IF in.new_text /\ ~in.is_locally_modified
        THEN <<Cmd("MODIFY_ENTRY", "F", "", "text_time", 0)>>
        ELSE <<>>)
  \o (IF in.props.supplied /\ ~in.prop_modified
        THEN <<Cmd("MODIFY_ENTRY", "F", "", "prop_time", 0)>>
        ELSE <<>>)

\* The whole entry_accum of one call (update_editor.c 1429-2192): the
\* merge of the regular properties, one MODIFY_ENTRY per entry-prop, the
\* text section, the revision, and the time stamps and URL.
EntryAccum(in) ==
  (IF in.props.supplied THEN <<Cmd("MERGE_PROPS", "F", "", "", 0)>>
   ELSE <<>>)
  \o [i \in 1..Len(in.props.entry) |->
        Attr(in.props.entry[i].name, in.props.entry[i].value)]
  \o (IF in.new_text
        THEN TextSection(in.is_locally_modified, in.has_binary_prop,
                         in.wfile_exists, in.eol_style, in.eol_str,
                         in.keywords)
        ELSE <<>>)
  \o <<BumpRevision(in.new_revision)>>
  \o (IF in.new_text /\ ~in.is_locally_modified
        THEN <<Cmd("MODIFY_ENTRY", "F", "", "text_time", 0)>>
        ELSE <<>>)
  \o (IF in.props.supplied /\ ~in.prop_modified
        THEN <<Cmd("MODIFY_ENTRY", "F", "", "prop_time", 0)>>
        ELSE <<>>)
  \o (IF in.new_URL # "" THEN <<Attr("url", in.new_URL)>> ELSE <<>>)

\* The log of a call from close_file for a file without keywords and
\* without property changes.
InstallLog(new_text, is_locally_modified, has_binary_prop, wfile_exists, eol_style, eol_str, new_revision) ==
  EntryAccum(Accum(new_text, is_locally_modified, has_binary_prop,
                   wfile_exists, eol_style, eol_str, NullKeywords,
                   new_revision))

----------------------------------------------------------------------------
(* Spec: one update U of file F, with crashes and recovery                 *)

Scenarios ==
  [working : WorkingTexts, binary : BOOLEAN, eol_style : {"none", "fixed"},
   outside : BOOLEAN]

EolStr(eol_style) == IF eol_style = "none" THEN "" ELSE "CRLF"

InitWC(sc) ==
  [files |-> [n \in FileNames |->
                IF n = "F"
                  THEN [TextFile(sc.working,
                                 IF sc.eol_style = "none" THEN "LF"
                                 ELSE "CRLF") EXCEPT !.mtime = 1]
                ELSE IF n = "txtb"
                  THEN [TextFile(OldText, "LF") EXCEPT !.ro = TRUE]
                ELSE NoFile],
   entry |-> [revision |-> OldRev, conflicted |-> FALSE, rejfile |-> "",
              text_time |-> IF sc.working = OldText THEN 1 ELSE 0],
   log |-> NoLog, log_tmp |-> NoLog, lock |-> FALSE, clock |-> 1]

NoRun == [new_text_path |-> "", is_locally_modified |-> FALSE,
          has_binary_prop |-> FALSE, entry_accum |-> <<>>, idx |-> 0,
          working_start |-> NoFile]

NoStatus == [taken |-> FALSE, text_status |-> "none", saw_log |-> FALSE]

IdleLock  == /\ ppc = <<>> /\ pop = <<>> /\ adm = <<>>
IdleBaton == /\ batons = <<>> /\ edit = <<>> /\ admlog = {}
IdleDag   == /\ fs = <<>> /\ dag = <<>> /\ walk = <<>>
IdleInst  == /\ wc = <<>> /\ pc = "" /\ run = <<>> /\ scen = <<>>
             /\ hist = <<>> /\ status = <<>>

Init ==
  /\ scen \in Scenarios
  /\ wc = InitWC(scen)
  /\ pc = "idle"
  /\ run = NoRun
  /\ hist = [crashes |-> 0, crash_pc |-> "", recovered |-> FALSE,
             closed |-> FALSE, snap |-> InitWC(scen)]
  /\ status = NoStatus
  /\ IdleLock
  /\ IdleBaton
  /\ IdleDag

\* The svndiff sent for F turns the old pristine text into the new one.
ApplyDelta(source) == IF source = OldText THEN NewText ELSE <<"?">>

\* apply_textdelta and window_handler: the new pristine text is assembled
\* in the tmp text-base and text_changed is set; close_file then passes
\* that path to svn_wc_install_file.
apply_textdelta ==
  /\ pc = "idle"
  /\ wc.entry.revision # NewRev
  /\ ~scen.outside
  /\ wc' = [wc EXCEPT !.files["tmp_txtb"] =
              TextFile(ApplyDelta(wc.files["txtb"].lines), "LF")]
  /\ run' = [NoRun EXCEPT !.new_text_path = "tmp_txtb"]
  /\ pc' = "i_lock"
  /\ hist' = [hist EXCEPT !.recovered = FALSE]
  /\ UNCHANGED <<scen, status>>

\* A caller of svn_wc_install_file that holds the new text elsewhere.
supply_new_text ==
  /\ pc = "idle"
  /\ wc.entry.revision # NewRev
  /\ scen.outside
  /\ wc' = [wc EXCEPT !.files["outside"] = TextFile(NewText, "LF")]
  /\ run' = [NoRun EXCEPT !.new_text_path = "outside"]
  /\ pc' = "i_lock"
  /\ hist' = [hist EXCEPT !.recovered = FALSE]
  /\ UNCHANGED <<scen, status>>

\* F is already at the target revision: the driver sends nothing for it.
driver_no_change ==
  /\ pc = "idle"
  /\ wc.entry.revision = NewRev
  /\ pc' = "done"
  /\ hist' = [hist EXCEPT !.recovered = FALSE]
  /\ UNCHANGED <<wc, run, scen, status>>

\* svn_wc__lock (parent_dir)
install_lock ==
  /\ pc = "i_lock"
  /\ IF wc.lock
       THEN /\ pc' = "down"
            /\ UNCHANGED <<wc, run>>
       ELSE /\ wc' = [wc EXCEPT !.lock = TRUE]
            /\ run' = [run EXCEPT !.working_start = wc.files["F"]]
            /\ pc' = "i_open"
  /\ UNCHANGED <<scen, hist, status>>

\* svn_wc__open_adm_file (log, APR_WRITE | APR_CREATE): not truncated.
install_open_log ==
  /\ pc = "i_open"
  /\ wc' = [wc EXCEPT !.log_tmp.exists = TRUE]
  /\ pc' = "i_decide"
  /\ UNCHANGED <<run, scen, hist, status>>

\* Variant: the new text is moved straight onto the pristine text-base.
PositionNewText_onto_textbase(w, new_text_path) ==
  IF new_text_path # "tmp_txtb"
    THEN [w EXCEPT !.files["txtb"] = w.files[new_text_path],
                   !.files["tmp_txtb"] = w.files[new_text_path],
                   !.files[new_text_path] = NoFile]
    ELSE w

\* Moving NEW_TEXT_PATH to the tmp text-base when it is elsewhere.
PositionNewText(w, new_text_path) ==
  IF new_text_path # "tmp_txtb"
    THEN [w EXCEPT !.files["tmp_txtb"] = w.files[new_text_path],
                   !.files[new_text_path] = NoFile]
    ELSE w

\* has_binary_prop, is_locally_modified, and the move of the new text;
\* none of it when there is no new text.
install_decide ==
  /\ pc = "i_decide"
  /\ IF run.new_text_path # ""
       THEN /\ run' = [run EXCEPT
                         !.has_binary_prop = scen.binary,
                         !.is_locally_modified = svn_wc_text_modified_p(wc)]
            /\ wc' = PositionNewText(wc, run.new_text_path)
       ELSE UNCHANGED <<run, wc>>
  /\ pc' = "i_prep"
  /\ UNCHANGED <<scen, hist, status>>

\* Variant: the new text is copied over the working file right away
\* when there are no local modifications, instead of by the logged CP.
PrepareMerge_copy_now(w, is_locally_modified, has_binary_prop, eol_style) ==
  IF ~is_locally_modified
    THEN PutFile(w, "F", svn_wc_copy_and_translate(w.files["tmp_txtb"],
                                                   EolStr(eol_style)))
    ELSE w

\* The files made while the log is accumulated: the patch from diff, the
\* LF copies of the two text-bases, the reserved reject file, tmp working
\* file and .orig file.
PrepareMerge(w, is_locally_modified, has_binary_prop, eol_style) ==
  IF ~is_locally_modified THEN w
  ELSE IF ~has_binary_prop
    THEN IF ~w.files["F"].exists THEN w
         ELSE [w EXCEPT
                 !.files["tr_txtb"] =
                    svn_wc_copy_and_translate(w.files["txtb"], "LF"),
                 !.files["tr_tmp_txtb"] =
                    svn_wc_copy_and_translate(w.files["tmp_txtb"], "LF"),
                 !.files["patch"] =
                    [EmptyFile EXCEPT !.hunks =
                       svn_io_run_diff(w.files["txtb"].lines,
                                       w.files["tmp_txtb"].lines)],
                 !.files["rej"] = EmptyFile,
                 !.files["tmp_working"] =
                    IF eol_style = "none" THEN w.files["tmp_working"]
                    ELSE EmptyFile]
    ELSE [w EXCEPT !.files["orig"] = EmptyFile]

install_prepare ==
  /\ pc = "i_prep"
  /\ wc' = IF run.new_text_path # ""
             THEN PrepareMerge(wc, run.is_locally_modified,
                               run.has_binary_prop, scen.eol_style)
             ELSE wc
  /\ run' = [run EXCEPT !.entry_accum =
               InstallLog(run.new_text_path # "", run.is_locally_modified,
                          run.has_binary_prop, wc.files["F"].exists,
                          scen.eol_style, EolStr(scen.eol_style), NewRev)]
  /\ pc' = "i_write"
  /\ UNCHANGED <<scen, hist, status>>

\* apr_file_write_full from offset 0 over whatever the file held.
Overlay(old, new) == new \o SubSeq(old, Len(new) + 1, Len(old))

install_write_log ==
  /\ pc = "i_write"
  /\ wc' = [wc EXCEPT !.log_tmp.cmds = Overlay(wc.log_tmp.cmds,
                                               run.entry_accum)]
  /\ pc' = "i_close"
  /\ UNCHANGED <<run, scen, hist, status>>

\* svn_wc__close_adm_file (sync): the written file becomes the log.
install_close_log ==
  /\ pc = "i_close"
  /\ wc' = [wc EXCEPT !.log = wc.log_tmp, !.log_tmp = NoLog]
  /\ run' = [run EXCEPT !.idx = 1]
  /\ hist' = [hist EXCEPT !.closed = TRUE, !.snap = wc']
  /\ pc' = "i_run"
  /\ UNCHANGED <<scen, status>>

\* svn_wc__run_log, one command at a time; the log is removed at the end.
install_run_log ==
  /\ pc = "i_run"
  /\ IF run.idx <= Len(wc.log.cmds)
       THEN /\ wc' = ExecCmd(wc.log.cmds[run.idx], wc)
            /\ run' = [run EXCEPT !.idx = run.idx + 1]
            /\ pc' = pc
       ELSE /\ wc' = [wc EXCEPT !.log = NoLog]
            /\ run' = run
            /\ pc' = "i_unlock"
  /\ UNCHANGED <<scen, hist, status>>

\* svn_wc__unlock, then close_file frees the file baton.
install_unlock ==
  /\ pc = "i_unlock"
  /\ wc' = [wc EXCEPT !.lock = FALSE]
  /\ pc' = "done"
  /\ UNCHANGED <<run, scen, hist, status>>

Running == {"i_lock", "i_open", "i_decide", "i_prep", "i_write", "i_close",
            "i_run", "i_unlock", "c_run"}

\* The process is killed; a log file being written keeps some prefix.
crash ==
  /\ pc \in Running
  /\ hist.crashes < MaxCrashes
  /\ \E k \in 0..Len(wc.log_tmp.cmds) :
       wc' = [wc EXCEPT !.log_tmp.cmds = SubSeq(wc.log_tmp.cmds, 1, k)]
  /\ pc' = "down"
  /\ hist' = [hist EXCEPT !.crashes = hist.crashes + 1, !.crash_pc = pc,
                          !.recovered = FALSE]
  /\ UNCHANGED <<run, scen, status>>

\* Recovery: replay a complete log from its first command, remove it,
\* discard a half-written log, release the lock.
cleanup_begin ==
  /\ pc = "down"
  /\ pc' = "c_run"
  /\ run' = [run EXCEPT !.idx = 1]
  /\ UNCHANGED <<wc, scen, hist, status>>

cleanup_run ==
  /\ pc = "c_run"
  /\ IF wc.log.exists /\ run.idx <= Len(wc.log.cmds)
       THEN /\ wc' = ExecCmd(wc.log.cmds[run.idx], wc)
            /\ run' = [run EXCEPT !.idx = run.idx + 1]
            /\ pc' = pc
            /\ hist' = hist
       ELSE /\ wc' = [wc EXCEPT !.log = NoLog, !.log_tmp = NoLog,
                                !.lock = FALSE]
            /\ run' = run
            /\ pc' = "idle"
            /\ hist' = [hist EXCEPT !.recovered = TRUE]
  /\ UNCHANGED <<scen, status>>

----------------------------------------------------------------------------
(* status.c                                                                *)

\* svn_wc_conflicted_p: the reject file named by the entry still exists.
svn_wc_conflicted_p(w) ==
  w.entry.rejfile # "" /\ w.files[w.entry.rejfile].exists

\* assemble_status for the file entry F (schedule normal, no prop file).
assemble_status(w) ==
  LET modified == IF svn_wc_text_modified_p(w) THEN "modified" ELSE "none"
  IN  IF w.entry.conflicted /\ svn_wc_conflicted_p(w)
        THEN "conflicted"
        ELSE modified

\* svn_wc_status: reads the entry and assembles the record; it neither
\* looks for a log nor replays one.
svn_wc_status ==
  /\ pc \in {"down", "idle", "done"}
  /\ status' = [taken |-> TRUE, text_status |-> assemble_status(wc),
                saw_log |-> wc.log.exists]
  /\ status' # status
  /\ UNCHANGED <<wc, pc, run, scen, hist>>

Next ==
  /\ \/ apply_textdelta
     \/ supply_new_text
     \/ driver_no_change
     \/ install_lock
     \/ install_open_log
     \/ install_decide
     \/ install_prepare
     \/ install_write_log
     \/ install_close_log
     \/ install_run_log
     \/ install_unlock
     \/ crash
     \/ cleanup_begin
     \/ cleanup_run
     \/ svn_wc_status
  /\ UNCHANGED <<lockVars, batonVars, dagVars>>

Spec == Init /\ [][Next]_vars

----------------------------------------------------------------------------
(* Claims checked under Spec                                               *)

TextBaseIs(l) == wc.files["txtb"].exists /\ wc.files["txtb"].lines = l

FullyOld == TextBaseIs(OldText) /\ wc.entry.revision = OldRev
FullyNew == TextBaseIs(NewText) /\ wc.entry.revision = NewRev

\* The command a replay step is about to execute, if any.
Replaying == pc \in {"i_run", "c_run"} /\ wc.log.exists
                /\ run.idx <= Len(wc.log.cmds)

\* C1: the pristine text-base of F changes only by the logged MV of the
\* tmp text-base during log replay, and after a crash at any point of the
\* install followed by recovery F is wholly at the old revision or wholly
\* at the new one.
C1_TextBaseOldOrNew ==
  /\ []((pc = "idle" /\ hist.recovered) => (FullyOld \/ FullyNew))
  /\ [][wc'.files["txtb"].lines # wc.files["txtb"].lines =>
          /\ Replaying
          /\ wc.log.cmds[run.idx] = Cmd("MV", "tmp_txtb", "txtb", "", 0)]_vars

\* A crash in the middle of replay, recovered, leaves F wholly new.
C1_Witness ==
  /\ pc = "idle" /\ hist.recovered /\ hist.crash_pc = "i_run"
  /\ FullyNew /\ scen.outside

\* C2: from the start of the install up to the sync-close of the log the
\* working file is what it was when the install started; every change to
\* it is made by a step of log replay.
C2_WorkingFileOnlyByReplay ==
  /\ [](pc \in {"i_open", "i_decide", "i_prep", "i_write", "i_close"} =>
          wc.files["F"] = run.working_start)
  /\ [][wc'.files["F"] # wc.files["F"] => Replaying]_vars

\* The install has replayed its log and the working file has changed.
C2_Witness ==
  /\ pc = "i_unlock"
  /\ wc.files["F"].lines # run.working_start.lines
  /\ ~run.is_locally_modified

\* Positions of the working text that differed from the old pristine text
\* before the update.
LocalMods == { i \in 1..Len(scen.working) :
                 i > Len(OldText) \/ scen.working[i] # OldText[i] }

KeepsLine(f, i) ==
  f.exists /\ i <= Len(f.lines) /\ f.lines[i] = scen.working[i]

\* C3: whenever the update has completed, after any kills, recoveries and
\* re-runs, F's entry is at the new revision; a file without local
\* modifications has exactly the new text, and every local modification is
\* still there (in the working file, or in the .orig copy kept for a
\* binary file).
C3_RerunReachesNewRevKeepingMods ==
  pc = "done" =>
    /\ wc.entry.revision = NewRev
    /\ (LocalMods = {} => wc.files["F"].lines = NewText)
    /\ \A i \in LocalMods :
         KeepsLine(wc.files["F"], i) \/ KeepsLine(wc.files["orig"], i)

\* What a replay leaves, without the clock readings.
Observable(w) ==
  [files |-> [n \in FileNames |-> [w.files[n] EXCEPT !.mtime = 0]],
   revision |-> w.entry.revision,
   conflicted |-> w.entry.conflicted,
   rejfile |-> w.entry.rejfile,
   text_time_fresh |-> w.entry.text_time = w.files["F"].mtime]

ReplayPrefix(cmds, k, w) == ReplayFrom(SubSeq(cmds, 1, k), 1, w)

\* C4: for the log that has just been closed, restarting replay from the
\* first command after any number k of executed commands (k = all of them
\* is replaying twice) ends in the state of one uninterrupted replay.
C4_ReplayIdempotent ==
  (pc = "i_run" /\ run.idx = 1) =>
    \A k \in 0..Len(wc.log.cmds) :
      Observable(ReplayFrom(wc.log.cmds, 1,
                            ReplayPrefix(wc.log.cmds, k, wc)))
        = Observable(ReplayFrom(wc.log.cmds, 1, wc))

\* C5: status is never reported while a complete log is still present.
C5_StatusAfterReplay == status.taken => ~status.saw_log

\* The install of a new text for a locally modified text file that was
\* there, merged by patch, has returned.
MergedByPatch ==
  /\ pc = "done"
  /\ run.new_text_path # ""
  /\ run.is_locally_modified
  /\ ~run.has_binary_prop
  /\ run.working_start.exists

RejectNonEmpty(w) == w.files["rej"].exists /\ w.files["rej"].hunks # {}

\* C22: when the update of a locally modified text file leaves a non-empty
\* reject file, the install still returns success, the entry is at the
\* target revision and flagged conflicted, and the status of the file is
\* conflicted; when the reject file is empty the entry is not flagged
\* conflicted.
C22_ConflictIsNotAnError ==
  MergedByPatch
    => /\ wc.entry.revision = NewRev
       /\ RejectNonEmpty(wc)
            => /\ wc.entry.conflicted
               /\ assemble_status(wc) = "conflicted"
       /\ ~RejectNonEmpty(wc) => ~wc.entry.conflicted

\* The working text "a X local" could not take the change of line 2.
C22_Witness ==
  /\ MergedByPatch
  /\ hist.crashes = 0
  /\ scen.working = <<"a", "X", "local">>
  /\ RejectNonEmpty(wc)
  /\ status.taken
  /\ status.text_status = "conflicted"

----------------------------------------------------------------------------
(* SpecNoDelta: close_file of a file that received no text delta           *)

\* The working copy of Init; the working file may have been touched since
\* its text_time was recorded (mtime 1, text_time 0).
InitNoDelta ==
  /\ scen \in Scenarios
  /\ \E text_time \in {0, 1} :
       wc = [InitWC(scen) EXCEPT !.entry.text_time = text_time]
  /\ pc = "idle"
  /\ run = NoRun
  /\ hist = [crashes |-> 0, crash_pc |-> "", recovered |-> FALSE,
             closed |-> FALSE, snap |-> InitWC(scen)]
  /\ status = NoStatus
  /\ IdleLock
  /\ IdleBaton
  /\ IdleDag

\* open_file, then close_file with text_changed and prop_changed unset:
\* svn_wc_install_file is called with no new text and no propchanges.
close_file_no_delta ==
  /\ pc = "idle"
  /\ wc.entry.revision # NewRev
  /\ run' = NoRun
  /\ pc' = "i_lock"
  /\ hist' = [hist EXCEPT !.recovered = FALSE]
  /\ UNCHANGED <<wc, scen, status>>

NextNoDelta ==
  /\ \/ close_file_no_delta
     \/ driver_no_change
     \/ install_lock
     \/ install_open_log
     \/ install_decide
     \/ install_prepare
     \/ install_write_log
     \/ install_close_log
     \/ install_run_log
     \/ install_unlock
     \/ crash
     \/ cleanup_begin
     \/ cleanup_run
     \/ svn_wc_status
  /\ UNCHANGED <<lockVars, batonVars, dagVars>>

SpecNoDelta == InitNoDelta /\ [][NextNoDelta]_vars

RevisionOnly == <<BumpRevision(NewRev)>>

\* C25: close_file of a file that received no text delta and no property
\* change accumulates, and closes as the log, exactly one command,
\* MODIFY_ENTRY F revision = target; the working file and the pristine
\* text-base are never changed, and when the call is done the revision is
\* the target and no log remains.
C25_NoDeltaLogIsRevisionOnly ==
  /\ pc \in {"i_write", "i_close", "i_run", "i_unlock"}
       => run.entry_accum = RevisionOnly
  /\ wc.log.exists => wc.log.cmds = RevisionOnly
  /\ wc.files["F"] = InitWC(scen).files["F"]
  /\ wc.files["txtb"] = InitWC(scen).files["txtb"]
  /\ pc = "done" => (wc.entry.revision = NewRev /\ ~wc.log.exists)

\* The call has run to its end on a locally modified working file.
C25_Witness ==
  /\ pc = "done"
  /\ hist.crashes = 0
  /\ hist.closed
  /\ hist.snap.log.cmds = RevisionOnly
  /\ scen.working = <<"a", "b", "local">>
  /\ wc.entry.revision = NewRev

\* C26: for a file with no local modifications and no server changes, the
\* finished update has set the entry's revision to the target and its
\* text_time to the working file's mtime, and the working file is as it
\* was.
C26_UnchangedFileGetsTextTime ==
  (pc = "done" /\ scen.working = OldText)
    => /\ wc.entry.revision = NewRev
       /\ wc.entry.text_time = wc.files["F"].mtime
       /\ wc.files["F"] = InitWC(scen).files["F"]

----------------------------------------------------------------------------
(* SpecAccum: what svn_wc_install_file chooses and writes, on any call     *)

EolStyleProp == "svn:eol-style"
KeywordsProp == "svn:keywords"

Prop(name, value) == [name |-> name, value |-> value]

\* The regular properties and the entry-props a caller may pass.
RegularLists ==
  { <<>>,
    <<Prop(EolStyleProp, "native")>>,
    <<Prop(KeywordsProp, "Author URL")>>,
    <<Prop(EolStyleProp, "LF"), Prop(KeywordsProp, "Author URL"),
      Prop(EolStyleProp, "native")>> }

EntryLists ==
  { <<>>,
    <<Prop("committed-rev", "r_new")>>,
    <<Prop("committed-rev", "r_new"), Prop("committed-date", "d_new"),
      Prop("last-author", "a_new")>> }

PropLists ==
  {NoProps} \cup [supplied : {TRUE}, regular : RegularLists,
                  entry : EntryLists]

\* The calls: the arguments, and the working copy they are made on.
\* stored_url is the URL F's entry has before the call.
AccumInputs ==
  [new_text : BOOLEAN, working : {"same", "modified", "missing"},
   binary : BOOLEAN, working_eol : {"", "CRLF"},
   working_keywords : {"", "Rev URL"}, props : PropLists,
   prop_conflicts : SUBSET {EolStyleProp, KeywordsProp},
   prop_modified : BOOLEAN, new_URL : {"", "n/F"},
   stored_url : {"u/F", "v/F"}]

ParentURL == "u"

\* The entry of F before the call.
OldEntry(in) ==
  [committed_rev |-> "r_old", committed_date |-> "d_old",
   last_author |-> "a_old", url |-> in.stored_url]

\* svn_wc__eol_style_from_value, with the eol string already encoded as
\* the property value that names it.
svn_wc__eol_style_from_value(value) ==
  CASE value = "native" -> [eol_style |-> "native", eol_str |-> "native"]
    [] value \in {"CR", "LF", "CRLF"} ->
         [eol_style |-> "fixed", eol_str |-> value]
    [] value = "" -> [eol_style |-> "none", eol_str |-> ""]
    [] OTHER -> [eol_style |-> "unknown", eol_str |-> ""]

\* The keywords a property value names.
KeywordList(value) ==
  CASE value = "Rev URL" -> {"revision", "url"}
    [] value = "Author URL" -> {"author", "url"}
    [] OTHER -> {}

\* svn_wc__get_keywords: the keywords of the list, with the values the
\* entry has now; NULL when the list names none.
svn_wc__get_keywords(entry, value) ==
  LET ks == KeywordList(value)
  IN  IF ks = {} THEN NullKeywords
      ELSE Keywords(IF "revision" \in ks THEN entry.committed_rev ELSE "",
                    IF "date" \in ks THEN entry.committed_date ELSE "",
                    IF "author" \in ks THEN entry.last_author ELSE "",
                    IF "url" \in ks THEN entry.url ELSE "")

\* The value the loop over regular_props ends with: that of the last
\* property of that name, "absent" when there is none.
RECURSIVE FreshValue(_, _)
FreshValue(regular_props, name) ==
  IF regular_props = <<>> THEN "absent"
  ELSE LET last == regular_props[Len(regular_props)]
       IN  IF last.name = name THEN last.value
           ELSE FreshValue(SubSeq(regular_props, 1, Len(regular_props) - 1),
                           name)

\* Which eol-style to use (update_editor.c 1569-1625).
DecideEol(in) ==
  LET fresh == FreshValue(in.props.regular, EolStyleProp)
  IN  IF fresh = "absent"
        THEN svn_wc__eol_style_from_value(in.working_eol)
      ELSE IF EolStyleProp \in in.prop_conflicts
        THEN svn_wc__eol_style_from_value(in.working_eol)
      ELSE svn_wc__eol_style_from_value(fresh)

\* latest_keyword_data: a keyword that is set takes the value of the
\* entry-prop of its name.
RECURSIVE latest_keyword_data(_, _)
latest_keyword_data(entry_props, keywords) ==
  IF keywords.null \/ entry_props = <<>> THEN keywords
  ELSE LET prop == Head(entry_props)
           k1 == IF keywords.revision # "" /\ prop.name = "committed-rev"
                   THEN [keywords EXCEPT !.revision = prop.value]
                   ELSE keywords
           k2 == IF k1.date # "" /\ prop.name = "committed-date"
                   THEN [k1 EXCEPT !.date = prop.value]
                   ELSE k1
           k3 == IF k2.author # "" /\ prop.name = "last-author"
                   THEN [k2 EXCEPT !.author = prop.value]
                   ELSE k2
       IN  latest_keyword_data(Tail(entry_props), k3)

\* svn_path_add_component on URL strings.
JoinURL(url, basename) ==
  IF url = "u" /\ basename = "F" THEN "u/F" ELSE "?"

\* Which keywords to use, and their values (update_editor.c 1627-1711).
DecideKeywords(in, has_parent_entry) ==
  LET fresh == FreshValue(in.props.regular, KeywordsProp)
      k0 == IF fresh = "absent"
              THEN svn_wc__get_keywords(OldEntry(in), in.working_keywords)
            ELSE IF KeywordsProp \in in.prop_conflicts
              THEN svn_wc__get_keywords(OldEntry(in), in.working_keywords)
            ELSE svn_wc__get_keywords(OldEntry(in), fresh)
      k1 == latest_keyword_data(in.props.entry, k0)
  IN  IF ~k1.null /\ k1.url # ""
        THEN IF in.new_URL # "" THEN [k1 EXCEPT !.url = in.new_URL]
             ELSE IF has_parent_entry
               THEN [k1 EXCEPT !.url = JoinURL(ParentURL, "F")]
             ELSE k1
        ELSE k1

\* The working copy the call is made on.
AccumWC(in) ==
  LET sc == [working |-> IF in.working = "modified"
                           THEN <<"a", "b", "local">> ELSE OldText,
             binary |-> in.binary,
             eol_style |-> IF in.working_eol = "" THEN "none" ELSE "fixed",
             outside |-> FALSE]
      w == InitWC(sc)
      w1 == IF in.working = "missing"
              THEN [w EXCEPT !.files["F"] = NoFile] ELSE w
  IN  IF in.new_text
        THEN [w1 EXCEPT !.files["tmp_txtb"] = TextFile(NewText, "LF")]
        ELSE w1

NoAccum == [eol_style |-> "", eol_str |-> "", keywords |-> NullKeywords,
            entry_accum |-> <<>>, is_locally_modified |-> FALSE]

InitAccum ==
  /\ scen \in AccumInputs
  /\ scen.props = NoProps => scen.prop_conflicts = {} /\ ~scen.prop_modified
  /\ wc = AccumWC(scen)
  /\ pc = "idle"
  /\ run = NoAccum
  /\ hist = <<>>
  /\ status = <<>>
  /\ IdleLock
  /\ IdleBaton
  /\ IdleDag

\* svn_wc_install_file up to the write of the log: the choices of the
\* text section when there is a new text, the temporary files of the
\* merge, and entry_accum.
accum_install ==
  /\ pc = "idle"
  /\ LET mod == scen.new_text /\ svn_wc_text_modified_p(wc)
         eol == IF scen.new_text THEN DecideEol(scen)
                ELSE [eol_style |-> "", eol_str |-> ""]
         kw == IF scen.new_text THEN DecideKeywords(scen, TRUE)
               ELSE NullKeywords
         in == [Accum(scen.new_text, mod, scen.binary, wc.files["F"].exists,
                      eol.eol_style, eol.eol_str, kw, NewRev)
                  EXCEPT !.props = scen.props,
                         !.prop_modified = scen.prop_modified,
                         !.new_URL = scen.new_URL]
     IN  /\ run' = [eol_style |-> eol.eol_style, eol_str |-> eol.eol_str,
                    keywords |-> kw, entry_accum |-> EntryAccum(in),
                    is_locally_modified |-> mod]
         /\ wc' = IF scen.new_text
                    THEN [PrepareMerge(wc, mod, scen.binary,
                                       IF eol.eol_style = "none" /\ kw.null
                                         THEN "none" ELSE "fixed")
                            EXCEPT !.log.exists = TRUE,
                                   !.log.cmds = EntryAccum(in)]
                    ELSE [wc EXCEPT !.log.exists = TRUE,
                                    !.log.cmds = EntryAccum(in)]
  /\ pc' = "i_run"
  /\ UNCHANGED <<scen, hist, status>>

\* svn_wc__run_log, uninterrupted.
accum_run_log ==
  /\ pc = "i_run"
  /\ wc' = svn_wc__run_log(wc)
  /\ pc' = "done"
  /\ UNCHANGED <<run, scen, hist, status>>

NextAccum ==
  /\ \/ accum_install
     \/ accum_run_log
  /\ UNCHANGED <<lockVars, batonVars, dagVars>>

SpecAccum == InitAccum /\ [][NextAccum]_vars

\* The positions of the commands of a log that satisfy a condition.
MergeCmds == {"CP", "RM", "RUN_CMD", "DETECT_CONFLICT"}

Positions(log, cmds) == { i \in 1..Len(log) : log[i].cmd \in cmds }

\* The commands that follow the revision: the time stamps and the URL.
Stamps(text_time, prop_time, new_URL) ==
  (IF text_time THEN <<Cmd("MODIFY_ENTRY", "F", "", "text_time", 0)>>
   ELSE <<>>)
  \o (IF prop_time THEN <<Cmd("MODIFY_ENTRY", "F", "", "prop_time", 0)>>
      ELSE <<>>)
  \o (IF new_URL # "" THEN <<Attr("url", new_URL)>> ELSE <<>>)

\* C31: in the log written when a new text is supplied, the MV of the tmp
\* text-base onto the text-base is the first command of the text section
\* (only property and entry commands precede it) and precedes every CP
\* from the text-base; READONLY text-base follows all merge commands; the
\* MODIFY_ENTRY with kind=file and revision=new_rev follows it; after that
\* come text_time exactly when the file was not locally modified,
\* prop_time exactly when properties were supplied and are not locally
\* modified, and url=new_URL exactly when new_URL was given.
C31_LogOrder ==
  (pc # "idle" /\ scen.new_text) =>
    LET log == run.entry_accum
        mv == Positions(log, {"MV"})
        ro == Positions(log, {"READONLY"})
    IN  /\ Cardinality(mv) = 1 /\ Cardinality(ro) = 1
        /\ \A m \in mv, r \in ro :
             /\ log[m] = Cmd("MV", "tmp_txtb", "txtb", "", 0)
             /\ log[r] = Cmd("READONLY", "txtb", "", "", 0)
             /\ \A i \in 1..(m - 1) :
                  log[i].cmd \in {"MERGE_PROPS", "MODIFY_ENTRY"}
             /\ \A i \in Positions(log, MergeCmds) : m < i /\ i < r
             /\ \A i \in Positions(log, {"CP"}) : log[i].name = "txtb" => m < i
             /\ r < Len(log)
             /\ log[r + 1].cmd = "MODIFY_ENTRY"
             /\ log[r + 1].kind = "file"
             /\ log[r + 1].arg = "revision"
             /\ log[r + 1].rev = NewRev
             /\ SubSeq(log, r + 2, Len(log))
                  = Stamps(scen.working # "modified",
                           scen.props.supplied /\ ~scen.prop_modified,
                           scen.new_URL)

\* A call with a new text, properties and a new URL on a locally modified
\* text file has written and run its log.
C31_Witness ==
  /\ pc = "done"
  /\ scen.new_text /\ scen.working = "modified" /\ ~scen.binary
  /\ scen.props.supplied /\ Len(scen.props.entry) = 3
  /\ ~scen.prop_modified /\ scen.new_URL = "n/F"
  /\ Len(run.entry_accum) > 12
  /\ run.entry_accum[Len(run.entry_accum)] = Attr("url", "n/F")
  /\ wc.entry.revision = NewRev

\* The merge commands of a log: those between the MV and the READONLY.
MergePart(log) ==
  LET m == CHOOSE i \in 1..Len(log) : log[i].cmd = "MV"
      r == CHOOSE i \in 1..Len(log) : log[i].cmd = "READONLY"
  IN  SubSeq(log, m + 1, r - 1)

\* The position in a sequence of its one command with these attributes.
Pos(part, cmd, name) ==
  CHOOSE i \in 1..Len(part) : part[i].cmd = cmd /\ part[i].name = name

Has(part, cmd, name) ==
  Cardinality({ i \in 1..Len(part) :
                  part[i].cmd = cmd /\ part[i].name = name }) = 1

\* A CP that translates to eol_str with the chosen keywords.
Translating(c, name, dest, eol_str, expand) ==
  /\ c.cmd = "CP" /\ c.name = name /\ c.dest = dest
  /\ c.arg = eol_str /\ c.expand = expand /\ c.keywords = run.keywords

\* The merge action by (locally modified, binary), without the order of
\* the commands that follow the patch: a translating CP when there are no
\* local modifications; for a locally modified text a patch made by diff
\* from the LF copies of the old and new text-bases, and one RUN_CMD patch,
\* on the working file when eol-style is none and there are no keywords,
\* else on an LF copy that is made before and copied back after; for a
\* locally modified binary CP working to .orig, then an untranslated CP
\* of the text-base, and the modified bytes are in the .orig file after
\* the replay.
MergeAction ==
  LET part == MergePart(run.entry_accum)
  IN  CASE scen.working = "same" ->
             /\ Len(part) = 1
             /\ Translating(part[1], "txtb", "F", run.eol_str, TRUE)
        [] scen.working = "modified" /\ ~scen.binary ->
             /\ pc = "i_run" =>
                  /\ wc.files["patch"].hunks
                       = svn_io_run_diff(OldText, NewText)
                  /\ wc.files["tr_txtb"].eol = "LF"
                  /\ wc.files["tr_tmp_txtb"].eol = "LF"
             /\ Cardinality(Positions(part, {"RUN_CMD"})) = 1
             /\ Has(part, "DETECT_CONFLICT", "F")
             /\ part[Pos(part, "DETECT_CONFLICT", "F")].dest = "rej"
             /\ Has(part, "RM", "patch")
             /\ Has(part, "RM", "tr_txtb")
             /\ Has(part, "RM", "tr_tmp_txtb")
             /\ IF run.eol_style = "none" /\ run.keywords.null
                  THEN /\ Has(part, "RUN_CMD", "F")
                       /\ Positions(part, {"CP"}) = {}
                  ELSE /\ Has(part, "RUN_CMD", "tmp_working")
                       /\ LET p == Pos(part, "RUN_CMD", "tmp_working")
                          IN  /\ 1 < p /\ p < Len(part)
                              /\ Translating(part[p - 1], "F", "tmp_working",
                                             "LF", FALSE)
                              /\ Translating(part[p + 1], "tmp_working", "F",
                                             run.eol_str, TRUE)
        [] scen.working = "modified" /\ scen.binary ->
             /\ part = <<Cmd("CP", "F", "orig", "", 0),
                         Cmd("CP", "txtb", "F", "", 0)>>
             /\ pc = "done" =>
                  /\ wc.files["orig"].lines = <<"a", "b", "local">>
                  /\ wc.files["F"].lines = NewText
        [] OTHER -> TRUE

\* The one RUN_CMD of a sequence.
PatchPos(part) == CHOOSE i \in 1..Len(part) : part[i].cmd = "RUN_CMD"

\* The order the claim gives: patch, DETECT_CONFLICT, then the RM of the
\* patch and of the temporary LF bases.
OrderAsClaimed(part) ==
  /\ PatchPos(part) < Pos(part, "DETECT_CONFLICT", "F")
  /\ \A n \in {"patch", "tr_txtb", "tr_tmp_txtb"} :
       Pos(part, "DETECT_CONFLICT", "F") < Pos(part, "RM", n)

\* The order written: the RM of the temporary LF bases, the patch, the RM
\* of the patch, DETECT_CONFLICT.
OrderAsWritten(part) ==
  /\ \A n \in {"tr_txtb", "tr_tmp_txtb"} : Pos(part, "RM", n) < PatchPos(part)
  /\ PatchPos(part) < Pos(part, "RM", "patch")
  /\ Pos(part, "RM", "patch") < Pos(part, "DETECT_CONFLICT", "F")
  /\ Pos(part, "DETECT_CONFLICT", "F") = Len(part)

PatchCase == scen.new_text /\ scen.working = "modified" /\ ~scen.binary

Supplied(props, name) == \E i \in 1..Len(props) : props[i].name = name

SuppliedValue(props, name) ==
  LET last == CHOOSE i \in 1..Len(props) :
                /\ props[i].name = name
                /\ \A j \in (i + 1)..Len(props) : props[j].name # name
  IN  props[last].value

\* The property value that decides: the incoming one when supplied among
\* the regular props and not in prop_conflicts, else the working one.
Effective(name, working_value) ==
  IF Supplied(scen.props.regular, name) /\ name \notin scen.prop_conflicts
    THEN SuppliedValue(scen.props.regular, name)
    ELSE working_value

\* A keyword's value: the incoming entry-prop when there is one, else the
\* entry's.
Latest(attr, old) ==
  IF Supplied(scen.props.entry, attr)
    THEN SuppliedValue(scen.props.entry, attr) ELSE old

\* The eol-style and the keywords are chosen, and the keywords' values
\* bound, as the claim says.
ChosenAsStated ==
  LET ks == KeywordList(Effective(KeywordsProp, scen.working_keywords))
      kw == run.keywords
  IN  /\ [eol_style |-> run.eol_style, eol_str |-> run.eol_str]
           = svn_wc__eol_style_from_value(
               Effective(EolStyleProp, scen.working_eol))
      /\ kw.null <=> ks = {}
      /\ kw.revision
           = IF "revision" \in ks THEN Latest("committed-rev", "r_old")
             ELSE ""
      /\ kw.date
           = IF "date" \in ks THEN Latest("committed-date", "d_old") ELSE ""
      /\ kw.author
           = IF "author" \in ks THEN Latest("last-author", "a_old") ELSE ""
      /\ kw.url
           = IF "url" \notin ks THEN ""
             ELSE IF scen.new_URL # "" THEN scen.new_URL
             ELSE JoinURL(ParentURL, "F")

\* The URL F's entry has once the log has run: new_URL when one was
\* given, else the one it had.
UpdatedURL == IF scen.new_URL # "" THEN scen.new_URL ELSE scen.stored_url

----------------------------------------------------------------------------
(* SpecDelta: apply_textdelta, window_handler and close_file of one file   *)

\* The file of the edit: opened by an update (text-base there, working
\* file as the user left it) or added by a checkout or an update (nothing
\* there yet).
DeltaInputs ==
  { in \in [is_checkout : BOOLEAN, adding : BOOLEAN, binary : BOOLEAN,
            working : WorkingTexts] :
      /\ in.is_checkout => in.adding
      /\ in.adding => (in.working = OldText /\ ~in.binary) }

DeltaWC(in) ==
  LET w == InitWC([working |-> in.working, binary |-> in.binary,
                   eol_style |-> "none", outside |-> FALSE])
  IN  IF in.adding
        THEN [w EXCEPT !.files["F"] = NoFile, !.files["txtb"] = NoFile,
                       !.entry.text_time = 0]
        ELSE w

\* The file baton (text_changed) and the handler baton (source, dest);
\* windows counts the windows applied, handler tells that the handler
\* baton is live.
NoDelta ==
  [text_changed |-> FALSE, source |-> FALSE, dest |-> FALSE,
   handler |-> FALSE, windows |-> 0, entry_accum |-> <<>>]

\* The full text the delta produces; window k carries its k-th line.
DeltaTarget(w) ==
  IF w.files["txtb"].exists THEN ApplyDelta(w.files["txtb"].lines)
  ELSE NewText

Handled(w, r, err) == [wc |-> w, run |-> r, err |-> err]

\* Variant: the note of new text is left before the files are closed.
window_handler_note_first(w, r, is_checkout, window, fail) ==
  LET applied == fail # "apply"
      w1 == IF applied /\ window # 0
              THEN [w EXCEPT !.files["tmp_txtb"].lines =
                               Append(@, DeltaTarget(w)[window])]
              ELSE w
      closed == [r EXCEPT !.source = FALSE, !.dest = FALSE,
                          !.handler = FALSE]
  IN  IF window # 0 /\ applied
        THEN Handled(w1, [r EXCEPT !.windows = window], FALSE)
      ELSE IF ~applied
        THEN Handled([w1 EXCEPT !.files["tmp_txtb"] = NoFile], closed, TRUE)
      ELSE IF (~is_checkout /\ r.source /\ fail = "close_source")
                \/ fail = "close_dest"
        THEN Handled([w1 EXCEPT !.files["tmp_txtb"] = NoFile],
                     [closed EXCEPT !.text_changed = TRUE], TRUE)
      ELSE Handled(w1, [closed EXCEPT !.text_changed = TRUE], FALSE)

\* window_handler (update_editor.c 445-487); window 0 is the NULL window,
\* fail names the call that returns an error.
window_handler(w, r, is_checkout, window, fail) ==
  LET applied == fail # "apply"
      w1 == IF applied /\ window # 0
              THEN [w EXCEPT !.files["tmp_txtb"].lines =
                               Append(@, DeltaTarget(w)[window])]
              ELSE w
      err == \/ ~applied
             \/ ~is_checkout /\ r.source /\ fail = "close_source"
             \/ fail = "close_dest"
      closed == [r EXCEPT !.source = FALSE, !.dest = FALSE,
                          !.handler = FALSE]
  IN  IF window # 0 /\ applied
        THEN Handled(w1, [r EXCEPT !.windows = window], FALSE)
      ELSE IF err
        THEN Handled([w1 EXCEPT !.files["tmp_txtb"] = NoFile], closed, TRUE)
      ELSE Handled(w1, [closed EXCEPT !.text_changed = TRUE], FALSE)

DeltaCall(op, window, failure, start) ==
  [op |-> op, window |-> window, err |-> failure # "", failure |-> failure,
   start |-> start]

InitDelta ==
  /\ scen \in DeltaInputs
  /\ wc = DeltaWC(scen)
  /\ pc = "opened"
  /\ run = NoDelta
  /\ hist = DeltaCall("", 0, "", DeltaWC(scen))
  /\ status = <<>>
  /\ IdleLock
  /\ IdleBaton
  /\ IdleDag

\* apply_textdelta (1059-1124): the text-base is opened for reading in an
\* update (a missing one leaves source NULL) and the tmp text-base is
\* created for writing.
delta_apply_textdelta ==
  \E fail \in {"", "open_source", "open_dest"} :
    /\ pc = "opened"
    /\ fail = "open_source" => ~scen.is_checkout
    /\ IF fail # ""
         THEN /\ pc' = "failed"
              /\ UNCHANGED <<wc, run>>
         ELSE /\ pc' = "windows"
              /\ wc' = [wc EXCEPT !.files["tmp_txtb"] = EmptyFile]
              /\ run' = [run EXCEPT
                           !.source = ~scen.is_checkout
                                        /\ wc.files["txtb"].exists,
                           !.dest = TRUE, !.handler = TRUE]
    /\ hist' = DeltaCall("apply_textdelta", 0, fail, hist.start)
    /\ UNCHANGED <<scen, status>>

\* The driver sends the windows of the delta in order, then the NULL
\* window.
delta_window ==
  \E window \in 0..Len(NewText) :
  \E fail \in {"", "apply", "close_source", "close_dest"} :
    /\ pc = "windows"
    /\ IF window = 0 THEN run.windows = Len(NewText)
       ELSE window = run.windows + 1
    /\ LET r == window_handler(wc, run, scen.is_checkout, window, fail)
       IN  /\ fail # "" => r.err
           /\ wc' = r.wc
           /\ run' = r.run
           /\ pc' = IF r.err THEN "failed"
                    ELSE IF window = 0 THEN "applied" ELSE "windows"
           /\ hist' = DeltaCall("window_handler", window, fail, hist.start)
    /\ UNCHANGED <<scen, status>>

\* close_file (2234-2260): svn_wc_install_file with the tmp text-base when
\* text_changed is set and with no new text otherwise, up to the write of
\* the log; a driver may call it on a file whose delta failed.
delta_close_file ==
  /\ pc \in {"opened", "applied", "failed"}
  /\ LET new_text == run.text_changed
         mod == new_text /\ svn_wc_text_modified_p(wc)
         log == InstallLog(new_text, mod, scen.binary, wc.files["F"].exists,
                           "none", "", NewRev)
         w1 == IF new_text
                 THEN PrepareMerge(wc, mod, scen.binary, "none")
                 ELSE wc
     IN  /\ wc' = [w1 EXCEPT !.log.exists = TRUE, !.log.cmds = log]
         /\ run' = [run EXCEPT !.entry_accum = log]
  /\ pc' = "i_run"
  /\ hist' = DeltaCall("close_file", 0, "", hist.start)
  /\ UNCHANGED <<scen, status>>

NextDelta ==
  /\ \/ delta_apply_textdelta
     \/ delta_window
     \/ delta_close_file
     \/ accum_run_log
  /\ UNCHANGED <<lockVars, batonVars, dagVars>>

SpecDelta == InitDelta /\ [][NextDelta]_vars

\* C40: text_changed becomes true only in the call of window_handler that
\* applies the NULL window without error; after a call of window_handler
\* that failed, in applying a window or in closing the text-base files,
\* the tmp text-base is gone and text_changed is false; and close_file on
\* a baton whose text_changed is false logs no MV and leaves the text-base
\* and the working file as they were.
C40_TextChangedOnlyAfterFinalWindow ==
  /\ [][(run'.text_changed /\ ~run.text_changed)
          => /\ hist'.op = "window_handler"
             /\ hist'.window = 0
             /\ ~hist'.err]_vars
  /\ []((hist.op = "window_handler" /\ hist.err)
          => (~wc.files["tmp_txtb"].exists /\ ~run.text_changed))
  /\ []((pc \in {"i_run", "done"} /\ ~run.text_changed)
          => /\ \A i \in DOMAIN run.entry_accum :
                  run.entry_accum[i].cmd # "MV"
             /\ wc.files["F"] = hist.start.files["F"]
             /\ wc.files["txtb"] = hist.start.files["txtb"])

\* Every window of the update of a modified file was applied, the close
\* of the tmp text-base failed, and close_file has run.
C40_Witness ==
  /\ pc = "done"
  /\ ~scen.adding /\ scen.working = <<"a", "b", "local">>
  /\ run.windows = Len(NewText)
  /\ ~run.text_changed
  /\ ~wc.files["tmp_txtb"].exists
  /\ wc.files["txtb"].lines = OldText
  /\ wc.entry.revision = NewRev

----------------------------------------------------------------------------
(* SpecStatus: assemble_status on any entry                                *)

\* What assemble_status is given: the entry (or none), and what it finds
\* on disk: whether a property file exists, whether text and properties
\* differ from the pristine ones, and whether the text and property
\* reject files named by the entry still exist.
StatusInputs ==
  [present : BOOLEAN, kind : {"file", "dir"},
   schedule : {"normal", "add", "replace", "delete"}, conflicted : BOOLEAN,
   prop_exists : BOOLEAN, text_differs : BOOLEAN, props_differ : BOOLEAN,
   text_rej : BOOLEAN, prop_rej : BOOLEAN]

StatusRecord(text_status, prop_status) ==
  [taken |-> TRUE, text_status |-> text_status, prop_status |-> prop_status]

\* The status for a schedule that overrides, or the status so far.
ScheduleStatus(schedule, so_far) ==
  CASE schedule = "add" -> "added"
    [] schedule = "replace" -> "replaced"
    [] schedule = "delete" -> "deleted"
    [] OTHER -> so_far

\* Variant: the schedule is looked at after the conflict.
assemble_status_schedule_last(in) ==
  IF ~in.present THEN StatusRecord("none", "none")
  ELSE
    LET prop_modified_p == in.prop_exists /\ in.props_differ
        text_modified_p == in.kind = "file" /\ in.text_differs
        text1 == IF text_modified_p THEN "modified" ELSE "none"
        prop1 == IF prop_modified_p THEN "modified" ELSE "none"
        text2 == IF in.conflicted /\ in.text_rej THEN "conflicted" ELSE text1
        prop2 == IF in.conflicted /\ in.prop_rej THEN "conflicted" ELSE prop1
        text3 == ScheduleStatus(in.schedule, text2)
        prop3 == IF in.prop_exists THEN ScheduleStatus(in.schedule, prop2)
                 ELSE prop2
    IN  StatusRecord(text3, prop3)

\* assemble_status, in the order of its assignments.
assemble_status_entry(in) ==
  IF ~in.present THEN StatusRecord("none", "none")
  ELSE
    LET prop_modified_p == in.prop_exists /\ in.props_differ
        text_modified_p == in.kind = "file" /\ in.text_differs
        text1 == IF text_modified_p THEN "modified" ELSE "none"
        prop1 == IF prop_modified_p THEN "modified" ELSE "none"
        text2 == ScheduleStatus(in.schedule, text1)
        prop2 == IF in.prop_exists THEN ScheduleStatus(in.schedule, prop1)
                 ELSE prop1
        text3 == IF in.conflicted /\ in.text_rej THEN "conflicted" ELSE text2
        prop3 == IF in.conflicted /\ in.prop_rej THEN "conflicted" ELSE prop2
    IN  StatusRecord(text3, prop3)

InitStatus ==
  /\ scen \in StatusInputs
  /\ status = [taken |-> FALSE, text_status |-> "none", prop_status |-> "none"]
  /\ wc = <<>>
  /\ pc = ""
  /\ run = <<>>
  /\ hist = <<>>
  /\ IdleLock
  /\ IdleBaton
  /\ IdleDag

status_assemble ==
  /\ ~status.taken
  /\ status' = assemble_status_entry(scen)
  /\ UNCHANGED <<wc, pc, run, scen, hist>>

NextStatus ==
  /\ status_assemble
  /\ UNCHANGED <<lockVars, batonVars, dagVars>>

SpecStatus == InitStatus /\ [][NextStatus]_vars

\* The status of one component by precedence: conflicted, then the
\* schedule, then modified, then none.
ByPrecedence(conflict, scheduled, schedule, modified) ==
  IF conflict THEN "conflicted"
  ELSE IF scheduled /\ schedule = "add" THEN "added"
  ELSE IF scheduled /\ schedule = "replace" THEN "replaced"
  ELSE IF scheduled /\ schedule = "delete" THEN "deleted"
  ELSE IF modified THEN "modified"
  ELSE "none"

\* C23: the status record has both statuses none when there is no entry;
\* otherwise each of text_status and prop_status is conflicted when the
\* entry is flagged conflicted and its reject file still exists, else the
\* status of the schedule (for the properties only when a property file
\* exists), else modified (the text of a file entry differs, the
\* properties differ and a property file exists), else none.
C23_StatusByPrecedence ==
  status.taken
    => IF ~scen.present
         THEN status.text_status = "none" /\ status.prop_status = "none"
         ELSE /\ status.text_status
                   = ByPrecedence(scen.conflicted /\ scen.text_rej, TRUE,
                                  scen.schedule,
                                  scen.kind = "file" /\ scen.text_differs)
              /\ status.prop_status
                   = ByPrecedence(scen.conflicted /\ scen.prop_rej,
                                  scen.prop_exists, scen.schedule,
                                  scen.prop_exists /\ scen.props_differ)

\* A modified file scheduled for deletion whose text conflict is still
\* there and that has no property file.
C23_Witness ==
  /\ status.taken
  /\ scen.present /\ scen.kind = "file" /\ scen.schedule = "delete"
  /\ scen.conflicted /\ scen.text_rej /\ ~scen.prop_rej
  /\ scen.text_differs /\ ~scen.prop_exists /\ scen.props_differ
  /\ status.text_status = "conflicted"
  /\ status.prop_status = "none"

----------------------------------------------------------------------------
(* SpecStatuses: svn_wc_statuses on a small tree                           *)

\* Paths are sequences of names; <<>> is the directory asked about first.
StatPaths == {<<>>, <<"a">>, <<"b">>, <<"a", "a">>}
StatDirs == {<<>>, <<"a">>, <<"a", "a">>}

\* The name of the entry of the directory itself.
SVN_WC_ENTRY_THIS_DIR == ""

Entry(name, kind) == [name |-> name, kind |-> kind]
NoEntry == Entry("none", "none")

\* The entries a directory may list besides its own, in the order the
\* hash gives them, and where this_dir comes in that order.
Listings(names) ==
  {<<>>} \cup { <<Entry(n, k)>> : n \in names, k \in {"file", "dir"} }
         \cup { <<Entry("a", k), Entry("b", "file")>> : k \in {"file", "dir"} }

WithThisDir(listing, first) ==
  IF first THEN <<Entry(SVN_WC_ENTRY_THIS_DIR, "dir")>> \o listing
  ELSE listing \o <<Entry(SVN_WC_ENTRY_THIS_DIR, "dir")>>

DiskKinds == {"none", "file", "dir"}

\* A tree: what is on disk at each path, whether a and a/a have an
\* administrative area, and the entries of the directories that have
\* one (a/a lists nothing but itself).
StatTrees ==
  { [disk |-> [p \in StatPaths |->
                 CASE p = <<>> -> "dir"
                   [] p = <<"a">> -> da
                   [] p = <<"b">> -> db
                   [] OTHER -> IF da = "dir" THEN daa ELSE "none"],
     adm |-> [d \in StatDirs |->
                CASE d = <<>> -> TRUE
                  [] d = <<"a">> -> da = "dir" /\ adm_a
                  [] OTHER -> da = "dir" /\ daa = "dir" /\ adm_aa],
     entries |-> [d \in StatDirs |->
                    CASE d = <<>> -> WithThisDir(root, first)
                      [] d = <<"a">> ->
                           IF da = "dir" /\ adm_a
                             THEN WithThisDir(sub, first) ELSE <<>>
                      [] OTHER ->
                           IF da = "dir" /\ daa = "dir" /\ adm_aa
                             THEN WithThisDir(<<>>, first) ELSE <<>>]] :
      da \in DiskKinds, db \in {"none", "file"}, daa \in DiskKinds,
      adm_a \in BOOLEAN, adm_aa \in BOOLEAN, first \in BOOLEAN,
      root \in Listings({"a", "b"}), sub \in Listings({"a"}) }

NoRec == [set |-> FALSE, entry |-> NoEntry, via |-> ""]
Rec(entry, via) == [set |-> TRUE, entry |-> entry, via |-> via]

\* svn_wc_entries_read: the entries of a directory with an administrative
\* area; an error for any other path.
svn_wc_entries_read(t, dir) ==
  IF dir \in StatDirs /\ t.disk[dir] = "dir" /\ t.adm[dir]
    THEN [err |-> "", entries |-> t.entries[dir]]
    ELSE [err |-> "NotWorkingCopy", entries |-> <<>>]

\* apr_hash_get on the entries: the entry of that name, or none.
Lookup(entries, name) ==
  IF \E i \in 1..Len(entries) : entries[i].name = name
    THEN entries[CHOOSE i \in 1..Len(entries) : entries[i].name = name]
    ELSE NoEntry

\* svn_wc_entry on a path: a directory's own this_dir entry when it has an
\* administrative area, else what its parent lists for it, else none.
svn_wc_entry_of(t, path) ==
  IF path \in StatDirs /\ t.disk[path] = "dir" /\ t.adm[path]
    THEN Lookup(t.entries[path], SVN_WC_ENTRY_THIS_DIR)
  ELSE IF path = <<>> THEN NoEntry
  ELSE LET dirpath == SubSeq(path, 1, Len(path) - 1)
       IN  IF dirpath \in StatDirs /\ t.adm[dirpath]
             THEN Lookup(t.entries[dirpath], path[Len(path)])
             ELSE NoEntry

\* add_status_structure: apr_hash_set of the record for the path.
add_status_structure(statushash, path, entry, via) ==
  [statushash EXCEPT ![path] = Rec(entry, via)]

StatResult(err, statushash) == [err |-> err, statushash |-> statushash]

\* Variant: whether to descend is decided by the kind the entry records.
RECURSIVE statuses_loop_by_entry_kind(_, _, _, _, _)
statuses_loop_by_entry_kind(t, statushash, path, descend, entries) ==
  IF entries = <<>> THEN StatResult("", statushash)
  ELSE
    LET e == Head(entries)
        fullpath == IF e.name # SVN_WC_ENTRY_THIS_DIR
                      THEN Append(path, e.name) ELSE path
        kind == IF fullpath \in StatPaths THEN t.disk[fullpath] ELSE "none"
        step ==
          IF e.name = SVN_WC_ENTRY_THIS_DIR
            THEN IF ~statushash[fullpath].set
                   THEN StatResult("", add_status_structure(
                                         statushash, fullpath, e, "this_dir"))
                   ELSE StatResult("", statushash)
          ELSE IF kind = "dir"
            THEN LET h1 == add_status_structure(
                             statushash, fullpath,
                             svn_wc_entry_of(t, fullpath), "entry")
                 IN  IF descend /\ e.kind = "dir"
                       THEN LET r == svn_wc_entries_read(t, fullpath)
                            IN  IF r.err # "" THEN StatResult(r.err, h1)
                                ELSE statuses_loop_by_entry_kind(
                                       t, h1, fullpath, descend, r.entries)
                       ELSE StatResult("", h1)
          ELSE IF kind = "file"
            THEN StatResult("", add_status_structure(statushash, fullpath,
                                                     e, "entry"))
          ELSE StatResult("", statushash)
    IN  IF step.err # "" THEN step
        ELSE statuses_loop_by_entry_kind(t, step.statushash, path, descend,
                                         Tail(entries))

\* The loop over the entries of a directory (status.c 269-339), with the
\* recursive call at 328 unfolded into the loop over the entries of the
\* subdirectory.
RECURSIVE statuses_loop(_, _, _, _, _)
statuses_loop(t, statushash, path, descend, entries) ==
  IF entries = <<>> THEN StatResult("", statushash)
  ELSE
    LET e == Head(entries)
        fullpath == IF e.name # SVN_WC_ENTRY_THIS_DIR
                      THEN Append(path, e.name) ELSE path
        kind == IF fullpath \in StatPaths THEN t.disk[fullpath] ELSE "none"
        step ==
          IF e.name = SVN_WC_ENTRY_THIS_DIR
            THEN IF ~statushash[fullpath].set
                   THEN StatResult("", add_status_structure(
                                         statushash, fullpath, e, "this_dir"))
                   ELSE StatResult("", statushash)
          ELSE IF kind = "dir"
            THEN LET h1 == add_status_structure(
                             statushash, fullpath,
                             svn_wc_entry_of(t, fullpath), "entry")
                 IN  IF descend
                       THEN LET r == svn_wc_entries_read(t, fullpath)
                            IN  IF r.err # "" THEN StatResult(r.err, h1)
                                ELSE statuses_loop(t, h1, fullpath, descend,
                                                   r.entries)
                       ELSE StatResult("", h1)
          ELSE IF kind = "file"
            THEN StatResult("", add_status_structure(statushash, fullpath,
                                                     e, "entry"))
          ELSE StatResult("", statushash)
    IN  IF step.err # "" THEN step
        ELSE statuses_loop(t, step.statushash, path, descend, Tail(entries))

\* svn_wc_statuses (status.c 205-343).
svn_wc_statuses(t, statushash, path, descend) ==
  LET kind == t.disk[path]
  IN  IF kind = "file"
        THEN LET dirpath == SubSeq(path, 1, Len(path) - 1)
                 basename == path[Len(path)]
                 r == svn_wc_entries_read(t, dirpath)
                 value == Lookup(r.entries, basename)
             IN  IF r.err # "" THEN StatResult(r.err, statushash)
                 ELSE IF value = NoEntry
                   THEN StatResult("BadFilename", statushash)
                 ELSE StatResult("", add_status_structure(statushash, path,
                                                          value, "entry"))
      ELSE IF kind = "dir"
        THEN LET r == svn_wc_entries_read(t, path)
             IN  IF r.err # "" THEN StatResult(r.err, statushash)
                 ELSE statuses_loop(t, statushash, path, descend, r.entries)
      ELSE StatResult("", statushash)

\* The hash the caller passes: empty, or holding a record from an earlier
\* call for one path.
EarlierHashes ==
  { [p \in StatPaths |-> IF p \in ps THEN Rec(NoEntry, "earlier") ELSE NoRec] :
      ps \in {{}, {<<>>}, {<<"a">>}} }

InitStatuses ==
  /\ scen \in [tree : StatTrees, statushash : EarlierHashes]
  /\ status = [taken |-> FALSE, path |-> <<>>, descend |-> FALSE, err |-> "",
               statushash |-> scen.statushash]
  /\ wc = <<>>
  /\ pc = ""
  /\ run = <<>>
  /\ hist = <<>>
  /\ IdleLock
  /\ IdleBaton
  /\ IdleDag

statuses_call ==
  /\ ~status.taken
  /\ \E path \in StatPaths, descend \in BOOLEAN :
       LET r == svn_wc_statuses(scen.tree, scen.statushash, path, descend)
       IN  status' = [taken |-> TRUE, path |-> path, descend |-> descend,
                      err |-> r.err, statushash |-> r.statushash]
  /\ UNCHANGED <<wc, pc, run, scen, hist>>

NextStatuses ==
  /\ statuses_call
  /\ UNCHANGED <<lockVars, batonVars, dagVars>>

SpecStatuses == InitStatuses /\ [][NextStatuses]_vars

\* The entries a directory lists besides itself.
Listed(d) ==
  IF d \in StatDirs
    THEN { scen.tree.entries[d][i] :
             i \in { j \in 1..Len(scen.tree.entries[d]) :
                       scen.tree.entries[d][j].name
                         # SVN_WC_ENTRY_THIS_DIR } }
    ELSE {}

\* Whether the call gets from the path asked about into directory d:
\* every step on the way is listed by its parent and is a directory on
\* disk, and descend is set.
Below(d) ==
  /\ Len(d) > Len(status.path)
  /\ SubSeq(d, 1, Len(status.path)) = status.path
  /\ status.descend
  /\ \A n \in (Len(status.path) + 1)..Len(d) :
       /\ scen.tree.disk[SubSeq(d, 1, n)] = "dir"
       /\ \E e \in Listed(SubSeq(d, 1, n - 1)) : e.name = d[n]

Visited == { d \in StatPaths : d = status.path \/ Below(d) }

\* The paths the call is to store a record for: every listed entry of a
\* visited directory whose path is a file or a directory on disk.
ToStore ==
  { p \in StatPaths :
      /\ p # <<>>
      /\ SubSeq(p, 1, Len(p) - 1) \in Visited
      /\ \E e \in Listed(SubSeq(p, 1, Len(p) - 1)) : e.name = p[Len(p)]
      /\ scen.tree.disk[p] \in {"file", "dir"} }

\* C34: a successful svn_wc_statuses on a directory stores one record
\* for each entry whose path is a file or directory on disk and for no
\* other path but the directory itself, goes into an entry only when
\* descend is set and the path is a directory on disk, whatever kind the
\* entry records, and stores the this_dir record only for a directory
\* path that had no record, leaving a record already stored for the
\* directory asked about as it was; on a file path that its parent has no
\* entry for, it fails with BadFilename and stores nothing.
C34_Statuses ==
  status.taken =>
    LET t == scen.tree
        before == scen.statushash
        after == status.statushash
    IN  /\ (t.disk[status.path] = "dir" /\ status.err = "") =>
             /\ \A p \in ToStore : after[p].set /\ after[p].via = "entry"
             /\ \A p \in StatPaths \ (ToStore \cup {status.path}) :
                  after[p] = before[p]
             /\ after[status.path].set
             /\ before[status.path].set
                  => after[status.path] = before[status.path]
             /\ \A p \in StatPaths :
                  after[p].via = "this_dir"
                    => (~before[p].set /\ p = status.path)
        /\ (/\ t.disk[status.path] = "file"
            /\ t.adm[SubSeq(status.path, 1, Len(status.path) - 1)]
            /\ \A e \in Listed(SubSeq(status.path, 1, Len(status.path) - 1)) :
                 e.name # status.path[Len(status.path)])
             => (status.err = "BadFilename" /\ after = before)

\* A descending call on the root has gone through a, which the root
\* lists as a file but which is a directory on disk, and has stored a
\* record for a/a; the record the hash already held for the root is
\* still there.
C34_Witness ==
  /\ status.taken /\ status.err = ""
  /\ status.path = <<>> /\ status.descend
  /\ Entry("a", "file") \in Listed(<<>>)
  /\ scen.tree.disk[<<"a">>] = "dir"
  /\ status.statushash[<<"a", "a">>].set
  /\ status.statushash[<<"a">>].via = "entry"
  /\ status.statushash[<<>>].via = "earlier"

----------------------------------------------------------------------------
(* SpecLock: two processes, one directory                                  *)

MaxCallbacks == 2

Procs == {1, 2}

Callbacks == {"delete_entry", "close_directory", "close_file"}

\* Variant: delete_entry opens the log before it takes the lock.
CallbackSteps_open_first(op) ==
  IF op = "delete_entry"
    THEN <<"open", "lock", "write", "close", "run", "unlock">>
    ELSE <<"lock", "open", "prep", "write", "close", "run", "unlock">>

\* The calls each callback makes on the administrative area, in order.
\* "prep" stands for the calls between opening and writing the log that
\* can return an error (property merge, diff, rename of the new text).
CallbackSteps(op) ==
  IF op = "delete_entry"
    THEN <<"lock", "open", "write", "close", "run", "unlock">>
    ELSE <<"lock", "open", "prep", "write", "close", "run", "unlock">>

LCmd(c, n, p) == [cmd |-> c, name |-> n, writer |-> p]

\* Variant: delete_entry writes a MODIFY_ENTRY command for the name.
CallbackLog_delete_as_modify(op, p) ==
  CASE op = "close_directory" ->
         <<LCmd("MODIFY_ENTRY", "this_dir", p), LCmd("MODIFY_ENTRY", "this_dir", p)>>
    [] OTHER -> <<LCmd("MODIFY_ENTRY", "F", p)>>

\* The commands each callback writes.
CallbackLog(op, p) ==
  CASE op = "delete_entry" -> <<LCmd("DELETE_ENTRY", "F", p)>>
    [] op = "close_directory" ->
         <<LCmd("MODIFY_ENTRY", "this_dir", p), LCmd("MODIFY_ENTRY", "this_dir", p)>>
    [] OTHER -> <<LCmd("MODIFY_ENTRY", "F", p)>>

RECURSIVE RunEntries(_, _)
RunEntries(cmds, entries) ==
  IF cmds = <<>> THEN entries
  ELSE RunEntries(Tail(cmds),
                  IF Head(cmds).cmd = "DELETE_ENTRY"
                    THEN entries \ {Head(cmds).name}
                    ELSE entries \cup {Head(cmds).name})

InitLock ==
  /\ ppc = [p \in Procs |-> [i |-> 0, ret |-> "", touched |-> FALSE, n |-> 0]]
  /\ pop = [p \in Procs |-> "none"]
  /\ adm = [holder |-> 0, log |-> NoLog, log_tmp |-> NoLog,
            entries |-> {"this_dir", "F"}]
  /\ IdleInst
  /\ IdleBaton
  /\ IdleDag

At(p, kind) ==
  /\ ppc[p].i >= 1
  /\ ppc[p].i <= Len(CallbackSteps(pop[p]))
  /\ CallbackSteps(pop[p])[ppc[p].i] = kind

\* The next call of the callback, or its successful return after the last.
Advance(p, touched) ==
  IF ppc[p].i = Len(CallbackSteps(pop[p]))
    THEN [ppc EXCEPT ![p].i = 0, ![p].ret = "ok", ![p].touched = touched]
    ELSE [ppc EXCEPT ![p].i = ppc[p].i + 1, ![p].touched = touched]

\* SVN_ERR: the callback returns the error at once.
ReturnError(p, e) == [ppc EXCEPT ![p].i = 0, ![p].ret = e]

\* The driver calls the next callback; it stops at the first error.
begin_callback ==
  \E p \in Procs, op \in Callbacks :
    /\ ppc[p].i = 0
    /\ ppc[p].ret \in {"", "ok"}
    /\ ppc[p].n < MaxCallbacks
    /\ pop' = [pop EXCEPT ![p] = op]
    /\ ppc' = [ppc EXCEPT ![p] = [i |-> 1, ret |-> "", touched |-> FALSE,
                                  n |-> ppc[p].n + 1]]
    /\ UNCHANGED adm

\* svn_wc__lock (path, 0): exclusive, no waiting.
callback_lock ==
  \E p \in Procs :
    /\ At(p, "lock")
    /\ IF adm.holder # 0
         THEN /\ ppc' = ReturnError(p, "AlreadyLocked")
              /\ UNCHANGED adm
         ELSE /\ adm' = [adm EXCEPT !.holder = p]
              /\ ppc' = Advance(p, ppc[p].touched)
    /\ UNCHANGED pop

\* svn_wc__open_adm_file (log, APR_WRITE | APR_CREATE)
callback_open_log ==
  \E p \in Procs, ok \in BOOLEAN :
    /\ At(p, "open")
    /\ IF ok
         THEN /\ adm' = [adm EXCEPT !.log_tmp.exists = TRUE]
              /\ ppc' = Advance(p, TRUE)
         ELSE /\ ppc' = ReturnError(p, "error")
              /\ UNCHANGED adm
    /\ UNCHANGED pop

\* svn_wc__merge_prop_diffs, svn_io_run_diff, apr_file_rename, ...
callback_prep ==
  \E p \in Procs, ok \in BOOLEAN :
    /\ At(p, "prep")
    /\ ppc' = IF ok THEN Advance(p, ppc[p].touched)
              ELSE ReturnError(p, "error")
    /\ UNCHANGED <<adm, pop>>

\* apr_file_write_full; on failure the file is closed and left as it is.
callback_write_log ==
  \E p \in Procs, ok \in BOOLEAN :
    /\ At(p, "write")
    /\ IF ok
         THEN /\ adm' = [adm EXCEPT !.log_tmp.cmds =
                           Overlay(adm.log_tmp.cmds,
                                   CallbackLog(pop[p], p))]
              /\ ppc' = Advance(p, TRUE)
         ELSE /\ \E k \in 0..(Len(CallbackLog(pop[p], p)) - 1) :
                   adm' = [adm EXCEPT !.log_tmp.cmds =
                             Overlay(adm.log_tmp.cmds,
                                     SubSeq(CallbackLog(pop[p], p), 1, k))]
              /\ ppc' = ReturnError(p, "error")
    /\ UNCHANGED pop

\* svn_wc__close_adm_file (log, sync)
callback_close_log ==
  \E p \in Procs, ok \in BOOLEAN :
    /\ At(p, "close")
    /\ IF ok
         THEN /\ adm' = [adm EXCEPT !.log = adm.log_tmp, !.log_tmp = NoLog]
              /\ ppc' = Advance(p, ppc[p].touched)
         ELSE /\ ppc' = ReturnError(p, "error")
              /\ UNCHANGED adm
    /\ UNCHANGED pop

\* svn_wc__run_log
callback_run_log ==
  \E p \in Procs, ok \in BOOLEAN :
    /\ At(p, "run")
    /\ IF ok
         THEN /\ adm' = [adm EXCEPT
                           !.entries = RunEntries(adm.log.cmds, adm.entries),
                           !.log = NoLog]
              /\ ppc' = Advance(p, ppc[p].touched)
         ELSE /\ ppc' = ReturnError(p, "error")
              /\ UNCHANGED adm
    /\ UNCHANGED pop

\* svn_wc__unlock
callback_unlock ==
  \E p \in Procs, ok \in BOOLEAN :
    /\ At(p, "unlock")
    /\ IF ok
         THEN /\ adm' = [adm EXCEPT !.holder = 0]
              /\ ppc' = Advance(p, ppc[p].touched)
         ELSE /\ ppc' = ReturnError(p, "error")
              /\ UNCHANGED adm
    /\ UNCHANGED pop

NextLock ==
  /\ \/ begin_callback
     \/ callback_lock
     \/ callback_open_log
     \/ callback_prep
     \/ callback_write_log
     \/ callback_close_log
     \/ callback_run_log
     \/ callback_unlock
  /\ UNCHANGED <<instVars, batonVars, dagVars>>

SpecLock == InitLock /\ [][NextLock]_vars

----------------------------------------------------------------------------
(* Claims checked under SpecLock                                           *)

\* p is between svn_wc__lock and svn_wc__unlock of the directory.
InCritical(p) ==
  /\ ppc[p].i >= 1
  /\ \E j \in 1..(ppc[p].i - 1) : CallbackSteps(pop[p])[j] = "lock"

Writers == { adm.log.cmds[j].writer : j \in 1..Len(adm.log.cmds) }
             \cup { adm.log_tmp.cmds[j].writer : j \in 1..Len(adm.log_tmp.cmds) }

\* C7: at most one process is between lock and unlock of the directory; a
\* callback that failed with AlreadyLocked has neither opened nor written
\* the log; the log never holds commands of two processes.
C7_LockExcludes ==
  /\ \A p, q \in Procs : (p # q /\ InCritical(p)) => ~InCritical(q)
  /\ \A p \in Procs : ppc[p].ret = "AlreadyLocked" => ~ppc[p].touched
  /\ Cardinality(Writers) <= 1

\* One process is writing the log while the other has been refused.
C7_Witness ==
  \E p, q \in Procs :
    /\ InCritical(p) /\ At(p, "close")
    /\ ppc[q].ret = "AlreadyLocked"

\* C8: a callback that has returned an error no longer holds the lock.
C8_ErrorReleasesLock ==
  \A p \in Procs : ppc[p].ret = "error" => adm.holder # p

DeleteLog(p) == <<LCmd("DELETE_ENTRY", "F", p)>>

\* p is running delete_entry and its next call is the one named.
Deleting(p, kind) == pop[p] = "delete_entry" /\ At(p, kind)

\* C28: delete_entry makes its calls in the order lock, write of the one
\* DELETE_ENTRY (name) command, sync-close, run, unlock, all inside the
\* callback: it writes holding the lock, closes a log file holding just
\* that command, runs a log holding just that command, unlocks when the
\* entry is gone and no log remains, and the step that returns success
\* leaves the entry removed, no log and the lock free.
C28_DeleteEntryInOrder ==
  /\ [](\A p \in Procs :
          /\ Deleting(p, "open")
               => (adm.holder = p /\ ~ppc[p].touched)
          /\ Deleting(p, "write")
               => (adm.holder = p /\ adm.log_tmp.exists /\ ~adm.log.exists)
          /\ Deleting(p, "close")
               => (adm.holder = p /\ adm.log_tmp.cmds = DeleteLog(p))
          /\ Deleting(p, "run")
               => (adm.holder = p /\ adm.log.exists
                   /\ ~adm.log_tmp.exists /\ adm.log.cmds = DeleteLog(p))
          /\ Deleting(p, "unlock")
               => (adm.holder = p /\ ~adm.log.exists /\ "F" \notin adm.entries))
  /\ [][\A p \in Procs :
          (pop[p] = "delete_entry" /\ ppc[p].i # 0 /\ ppc'[p].ret = "ok")
            => /\ Deleting(p, "unlock")
               /\ "F" \notin adm'.entries
               /\ ~adm'.log.exists
               /\ ~adm'.log_tmp.exists
               /\ adm'.holder = 0]_vars

\* A delete_entry has returned success after removing the entry.
C28_Witness ==
  \E p \in Procs :
    /\ pop[p] = "delete_entry"
    /\ ppc[p].i = 0
    /\ ppc[p].ret = "ok"
    /\ "F" \notin adm.entries
    /\ adm.holder = 0

----------------------------------------------------------------------------
(* SpecBaton: the directory and file batons of one edit                    *)

MaxBatons == 3

Baton(kind, parent_baton, ref_count, added) ==
  [kind |-> kind, parent |-> parent_baton, ref_count |-> ref_count,
   added |-> added, prop_changed |-> FALSE,
   opened |-> FALSE,      \* the baton was returned to the driver
   close_run |-> FALSE,   \* its close callback has been entered
   closed |-> FALSE,      \* its close callback has returned without error
   early |-> FALSE,       \* it was closed while children were outstanding
   retired |-> 0]         \* number of times its pool was destroyed

\* One change of a directory's administrative area.
AdmWrite(what, locked, viaLog) ==
  [what |-> what, locked |-> locked, viaLog |-> viaLog]

\* The state a handler works on: the batons, the record of administrative
\* writes, the locks the handler holds, the error it is about to return
\* and whether it has touched a retired baton.
St0 ==
  [batons |-> batons, admlog |-> admlog, lock |-> {}, err |-> FALSE,
   uaf |-> edit.uaf]

Touch(st, d) == [st EXCEPT !.uaf = @ \/ st.batons[d].retired > 0]

\* svn_wc__entry_modify writes the entries file at once.
svn_wc__entry_modify(st, d, what, ok) ==
  IF ok
    THEN [st EXCEPT !.admlog = @ \cup {AdmWrite(what, d \in st.lock, FALSE)}]
    ELSE [st EXCEPT !.err = TRUE]

\* svn_wc__wcprop_set stores a wc-prop out of band; the store is not part
\* of the administrative state followed here.
svn_wc__wcprop_set(st, d, ok) ==
  IF ok THEN st ELSE [st EXCEPT !.err = TRUE]

\* lock; open, write, close and run the log; unlock.
LoggedChange(st, d, what) ==
  LET locked == [st EXCEPT !.lock = @ \cup {d}]
      run_ == [locked EXCEPT !.admlog =
                 @ \cup {AdmWrite(what, d \in locked.lock, TRUE)}]
  IN  [run_ EXCEPT !.lock = @ \ {d}]

make_dir_baton(b, parent_baton, added) ==
  Append(IF parent_baton # 0
           THEN [b EXCEPT ![parent_baton].ref_count = @ + 1]
           ELSE b,
         Baton("dir", parent_baton, 1, added))

\* Variant: the parent's count is left alone.
make_file_baton_no_count(b, parent_dir_baton) ==
  Append(b, Baton("file", parent_dir_baton, 0, FALSE))

make_file_baton(b, parent_dir_baton) ==
  Append([b EXCEPT ![parent_dir_baton].ref_count = @ + 1],
         Baton("file", parent_dir_baton, 0, FALSE))

RECURSIVE Ancestors(_)
Ancestors(d) == IF d = 0 THEN {} ELSE {d} \cup Ancestors(batons[d].parent)

\* The calls of svn_wc__entry_modify that retiring d and its parents can
\* make, any one of which may return an error; <<0, 0>> is none.
FailPoints(d) == {<<0, 0>>} \cup (Ancestors(d) \X {1, 2})

RECURSIVE decrement_ref_count(_, _, _)
RECURSIVE free_dir_baton(_, _, _)

\* failAt = <<d, k>>: the k-th svn_wc__entry_modify of free_dir_baton (d)
\* returns an error.
free_dir_baton(st, d, failAt) ==
  LET parent_ == st.batons[d].parent
      s1 == IF edit.is_checkout \/ parent_ # 0
              THEN svn_wc__entry_modify(st, d, "revision", failAt # <<d, 1>>)
              ELSE st
      s2 == IF st.batons[d].added /\ parent_ # 0
              THEN svn_wc__entry_modify(Touch(s1, parent_), parent_, "kind",
                                        failAt # <<d, 2>>)
              ELSE s1
      s3 == [s2 EXCEPT !.batons[d].retired = @ + 1]
  IN  IF s1.err THEN s1
      ELSE IF s2.err THEN s2
      ELSE IF parent_ # 0 THEN decrement_ref_count(s3, parent_, failAt)
      ELSE s3

decrement_ref_count(st, d, failAt) ==
  LET s1 == [Touch(st, d) EXCEPT !.batons[d].ref_count = @ - 1]
  IN  IF s1.batons[d].ref_count = 0
        THEN free_dir_baton(s1, d, failAt)
        ELSE s1

free_file_baton(st, fb, failAt) ==
  decrement_ref_count([st EXCEPT !.batons[fb].retired = @ + 1],
                      st.batons[fb].parent, failAt)

\* What the handler leaves behind when it returns.
Return(st) ==
  /\ batons' = st.batons
  /\ admlog' = st.admlog
  /\ edit' = [edit EXCEPT !.failed = st.err, !.uaf = st.uaf]

InitBaton ==
  /\ batons = <<>>
  /\ edit \in [is_checkout : BOOLEAN, failed : {FALSE}, uaf : {FALSE}]
  /\ admlog = {}
  /\ IdleInst
  /\ IdleLock
  /\ IdleDag

\* The directory batons the driver may still work in.
OpenDirs ==
  { d \in DOMAIN batons : /\ batons[d].kind = "dir"
                          /\ batons[d].opened
                          /\ ~batons[d].close_run }

OpenFiles ==
  { f \in DOMAIN batons : /\ batons[f].kind = "file"
                          /\ batons[f].opened
                          /\ ~batons[f].close_run }

open_root ==
  \E ok \in (IF edit.is_checkout THEN BOOLEAN ELSE {TRUE}) :
    /\ batons = <<>>
    /\ ~edit.failed
    /\ LET b == make_dir_baton(batons, 0, FALSE)
       IN  Return([St0 EXCEPT !.batons = [b EXCEPT ![1].opened = TRUE],
                              !.err = ~ok])

add_directory ==
  \E parent_baton \in OpenDirs, ok \in BOOLEAN :
    /\ ~edit.failed
    /\ Len(batons) < MaxBatons
    /\ LET b == make_dir_baton(batons, parent_baton, TRUE)
           s1 == Touch([St0 EXCEPT !.batons = b], parent_baton)
       IN  Return(IF ok THEN [s1 EXCEPT !.batons[Len(b)].opened = TRUE]
                  ELSE [s1 EXCEPT !.err = TRUE])

open_directory ==
  \E parent_baton \in OpenDirs :
    /\ ~edit.failed
    /\ Len(batons) < MaxBatons
    /\ LET b == make_dir_baton(batons, parent_baton, FALSE)
           s1 == Touch([St0 EXCEPT !.batons = b], parent_baton)
       IN  Return([s1 EXCEPT !.batons[Len(b)].opened = TRUE])

add_or_open_file ==
  \E parent_baton \in OpenDirs, ok \in BOOLEAN :
    /\ ~edit.failed
    /\ Len(batons) < MaxBatons
    /\ LET b == make_file_baton(batons, parent_baton)
           s1 == Touch([St0 EXCEPT !.batons = b], parent_baton)
       IN  Return(IF ok THEN [s1 EXCEPT !.batons[Len(b)].opened = TRUE]
                  ELSE [s1 EXCEPT !.err = TRUE])

baton_delete_entry ==
  \E parent_baton \in OpenDirs, ok \in BOOLEAN :
    /\ ~edit.failed
    /\ Return(IF ok THEN LoggedChange(Touch(St0, parent_baton), parent_baton,
                                      "delete_entry")
              ELSE [St0 EXCEPT !.err = TRUE])

change_dir_prop ==
  \E db \in OpenDirs, class \in {"wc", "entry", "regular"}, ok \in BOOLEAN :
    /\ ~edit.failed
    /\ class = "regular" => ok
    /\ Return(CASE class = "wc" ->
                     svn_wc__wcprop_set(Touch(St0, db), db, ok)
                [] class = "entry" ->
                     svn_wc__entry_modify(Touch(St0, db), db, "attributes", ok)
                [] OTHER ->
                     [Touch(St0, db) EXCEPT !.batons[db].prop_changed = TRUE])

close_directory ==
  \E db \in OpenDirs, ok \in BOOLEAN : \E failAt \in FailPoints(db) :
    /\ ~edit.failed
    /\ ~batons[db].prop_changed => ok
    /\ LET s0 == [Touch(St0, db) EXCEPT
                    !.batons[db].close_run = TRUE,
                    !.batons[db].early = batons[db].ref_count > 1]
           s1 == IF ~batons[db].prop_changed THEN s0
                 ELSE IF ok THEN LoggedChange(s0, db, "props")
                 ELSE [s0 EXCEPT !.err = TRUE]
           s2 == IF s1.err THEN s1 ELSE decrement_ref_count(s1, db, failAt)
       IN  Return(IF s2.err THEN s2
                  ELSE [s2 EXCEPT !.batons[db].closed = TRUE])

close_file ==
  \E fb \in OpenFiles, ok \in BOOLEAN : \E failAt \in FailPoints(batons[fb].parent) :
    /\ ~edit.failed
    /\ LET s0 == [St0 EXCEPT !.batons[fb].close_run = TRUE]
           s1 == IF ok
                   THEN LoggedChange(Touch(s0, batons[fb].parent),
                                     batons[fb].parent, "install_file")
                   ELSE [s0 EXCEPT !.err = TRUE]
           s2 == IF s1.err THEN s1 ELSE free_file_baton(s1, fb, failAt)
       IN  Return(IF s2.err THEN s2
                  ELSE [s2 EXCEPT !.batons[fb].closed = TRUE])

NextBaton ==
  /\ \/ open_root
     \/ add_directory
     \/ open_directory
     \/ add_or_open_file
     \/ baton_delete_entry
     \/ change_dir_prop
     \/ close_directory
     \/ close_file
  /\ UNCHANGED <<instVars, lockVars, dagVars>>

SpecBaton == InitBaton /\ [][NextBaton]_vars

----------------------------------------------------------------------------
(* Claims checked under SpecBaton                                          *)

\* C6: every change of a directory's administrative state is made while
\* the directory's lock is held and by running the log, including the
\* writes of free_dir_baton and the entry-prop write of change_dir_prop.
C6_AdmChangesLockedAndLogged ==
  \A w \in admlog : w.locked /\ w.viaLog

Dirs == { d \in DOMAIN batons : batons[d].kind = "dir" }

Children(d) == { c \in DOMAIN batons : batons[c].parent = d }

\* C9: the ref_count of a directory baton that is not retired is 1 while
\* its own close_directory has not run (else 0) plus the number of its
\* children that were opened and are not retired; it is never negative,
\* the baton is retired exactly when the count is 0, and a directory baton
\* is created with count 1.
C9_RefCountCountsOpenChildren ==
  /\ [](\A d \in Dirs :
          /\ batons[d].ref_count >= 0
          /\ (batons[d].retired > 0) <=> (batons[d].ref_count = 0)
          /\ batons[d].retired = 0 =>
               batons[d].ref_count =
                 (IF batons[d].close_run THEN 0 ELSE 1)
                 + Cardinality({ c \in Children(d) :
                                   batons[c].opened /\ batons[c].retired = 0 }))
  /\ [][\A d \in DOMAIN batons' :
          (d \notin DOMAIN batons /\ batons'[d].kind = "dir")
            => batons'[d].ref_count = 1]_vars

\* C10: whatever the order of the close callbacks, a directory baton is
\* retired at most once, only after its own close_directory has run and
\* all its children are retired; no retired baton is used; and once every
\* baton has been closed every directory baton has been retired.
C10_RetiredOnceAfterChildren ==
  /\ \A d \in Dirs :
       /\ batons[d].retired <= 1
       /\ batons[d].retired = 1 =>
            /\ batons[d].close_run
            /\ \A c \in Children(d) : batons[c].retired >= 1
  /\ ~edit.uaf
  /\ (batons # <<>> /\ \A x \in DOMAIN batons : batons[x].closed)
       => \A d \in Dirs : batons[d].retired = 1

\* A directory closed before its children is retired by the last child's
\* close, and the whole tree of a full edit is retired.
C10_Witness ==
  /\ Len(batons) = MaxBatons
  /\ \A x \in DOMAIN batons : batons[x].closed /\ batons[x].retired = 1
  /\ \E d \in Dirs : batons[d].early /\ batons[d].parent # 0
  /\ \E f \in DOMAIN batons : batons[f].kind = "file"

----------------------------------------------------------------------------
(* SpecTree: the directory callbacks on a small working-copy tree          *)

MaxTreeBatons == 3

TreeNames == {"a", "b"}

\* Paths relative to the anchor, one name per component.
TreePaths ==
  {<<>>} \cup { <<n>> : n \in TreeNames } \cup { <<n, m>> : n, m \in TreeNames }

AnchorURL == <<"u">>

svn_path_add_component(path, name) == Append(path, name)

\* What is at a path: the object on disk and, when the path is versioned,
\* the fields of its entry; listed and kind are what the entries of the
\* parent directory hold for the name.
NoTreeNode ==
  [disk |-> "none", entry |-> FALSE, listed |-> FALSE, kind |-> "none",
   url |-> <<>>,
   revision |-> -1, prop_time |-> "", props_modified |-> FALSE,
   props |-> <<>>, attrs |-> {}, wcprops |-> {}]

Versioned(kind, url, revision, props_modified) ==
  [NoTreeNode EXCEPT !.disk = kind, !.entry = TRUE, !.listed = TRUE,
                     !.kind = kind, !.url = url, !.revision = revision,
                     !.prop_time = "old", !.props_modified = props_modified]

\* The URL stored in the entry of path: the parent's URL joined with the
\* name, unless the path was switched to another location.
RECURSIVE StoredURL(_, _)
StoredURL(path, switched) ==
  IF path \in switched THEN <<IF Len(path) = 1 THEN "v" ELSE "w">> \o path
  ELSE IF path = <<>> THEN AnchorURL
  ELSE svn_path_add_component(StoredURL(SubSeq(path, 1, Len(path) - 1), switched),
                              path[Len(path)])

\* A working copy at OldRev: the anchor, directory a with directory a/a
\* and file a/b in it; b is absent or an unversioned file.  InitTree adds
\* the tree whose working file a/b was deleted by the user.
UpdateTree(switched, obstructed, props_modified) ==
  [p \in TreePaths |->
     CASE p \in {<<>>, <<"a">>, <<"a", "a">>} ->
            Versioned("dir", StoredURL(p, switched), OldRev, props_modified)
       [] p = <<"a", "b">> ->
            Versioned("file", StoredURL(p, switched), OldRev, FALSE)
       [] p = <<"b">> /\ obstructed -> [NoTreeNode EXCEPT !.disk = "file"]
       [] OTHER -> NoTreeNode]

\* The destination of a checkout: nothing is there yet.
CheckoutTree == [p \in TreePaths |-> NoTreeNode]

\* svn_wc__ensure_directory, then svn_wc__ensure_wc: the directory is
\* created if needed and made (or checked to be) a working copy of
\* ancestor_url at ancestor_revision; only a directory that was there can
\* have an administrative area already.
prep_directory(w, path, ancestor_url, ancestor_revision, fail) ==
  LET made == [w EXCEPT ![path].disk = "dir"]
  IN  IF fail = "ensure_directory" \/ w[path].disk = "file"
        THEN [err |-> "error", wc |-> w]
      ELSE IF fail = "ensure_wc"
        THEN [err |-> "error", wc |-> made]
      ELSE IF w[path].disk = "dir" /\ w[path].entry
        THEN [err |-> IF made[path].url = ancestor_url THEN "" ELSE "error",
              wc |-> made]
      ELSE [err |-> "",
            wc |-> [made EXCEPT ![path].entry = TRUE,
                                ![path].url = ancestor_url,
                                ![path].revision = ancestor_revision]]

\* The path, URL and disjoint_url of a new directory or file baton.
BatonURL(w, b, is_checkout, parent_baton, name) ==
  LET path == IF parent_baton # 0
                THEN svn_path_add_component(b[parent_baton].path, name)
                ELSE <<>>
      telescoped == IF parent_baton # 0
                      THEN svn_path_add_component(b[parent_baton].URL, name)
                      ELSE AnchorURL
      URL == IF is_checkout THEN telescoped
             ELSE IF w[path].entry THEN w[path].url
             ELSE <<>>
  IN  [name |-> name, path |-> path, URL |-> URL,
       disjoint_url |-> /\ ~is_checkout
                        /\ parent_baton # 0
                        /\ \/ b[parent_baton].disjoint_url
                           \/ telescoped # URL,
       propchanges |-> <<>>]

\* The batons after make_dir_baton or make_file_baton, the new one last.
WithURL(b, w, is_checkout, parent_baton, name) ==
  [b EXCEPT ![Len(b)] = @ @@ BatonURL(w, b, is_checkout, parent_baton, name)]

TreeCall(op, baton, name, copyfrom, err) ==
  [op |-> op, baton |-> baton, name |-> name, copyfrom |-> copyfrom,
   err |-> err, prop |-> <<>>, value |-> "", log |-> <<>>, steps |-> <<>>,
   is_wc |-> TRUE]

InitTree ==
  /\ \E is_checkout \in BOOLEAN :
       /\ edit = [is_checkout |-> is_checkout, failed |-> FALSE, uaf |-> FALSE,
                  target_revision |-> NewRev, prop_calls |-> 0]
       /\ IF is_checkout
            THEN wc = CheckoutTree
            ELSE \/ \E switched \in {{}, {<<"a">>}, {<<"a", "a">>},
                                     {<<"a", "b">>}} :
                      wc = UpdateTree(switched, FALSE, FALSE)
                 \/ wc = UpdateTree({}, TRUE, FALSE)
                 \/ wc = [UpdateTree({}, FALSE, FALSE)
                            EXCEPT ![<<"a", "b">>].disk = "none"]
  /\ batons = <<>>
  /\ admlog = {}
  /\ hist = TreeCall("", 0, "", FALSE, "")
  /\ pc = ""
  /\ run = <<>>
  /\ scen = <<>>
  /\ status = <<>>
  /\ IdleLock
  /\ IdleDag

\* What a tree callback leaves behind when it returns; prop_calls counts
\* the calls of change_dir_prop.
TreeReturn(st, w, call) ==
  /\ batons' = st.batons
  /\ admlog' = st.admlog
  /\ edit' = [edit EXCEPT !.failed = call.err # "", !.uaf = st.uaf,
                          !.prop_calls = IF call.op = "change_dir_prop"
                                           THEN @ + 1 ELSE @]
  /\ wc' = w
  /\ hist' = call

tree_open_root ==
  \E fail \in {"", "ensure_directory", "ensure_wc"} :
    /\ batons = <<>>
    /\ ~edit.failed
    /\ ~edit.is_checkout => fail = ""
    /\ LET b == WithURL(make_dir_baton(batons, 0, FALSE), wc,
                        edit.is_checkout, 0, "")
           r == IF edit.is_checkout
                  THEN prep_directory(wc, <<>>, AnchorURL,
                                      edit.target_revision, fail)
                  ELSE [err |-> "", wc |-> wc]
       IN  TreeReturn([St0 EXCEPT !.batons = [b EXCEPT ![1].opened = TRUE]],
                      r.wc, TreeCall("open_root", 1, "", FALSE, r.err))

\* Variant: the copyfrom arguments are looked at after the directory is
\* prepared.
add_directory_checks_prep_first(w, path, name, parent_path, copyfrom, target_revision, fail) ==
  IF fail = "check_path" THEN [err |-> "error", wc |-> w]
  ELSE IF w[path].disk # "none" THEN [err |-> "ObstructedUpdate", wc |-> w]
  ELSE IF fail = "entry" THEN [err |-> "error", wc |-> w]
  ELSE IF ~w[parent_path].entry THEN [err |-> "crash", wc |-> w]
  ELSE LET r == prep_directory(w, path,
                               svn_path_add_component(w[parent_path].url, name),
                               target_revision, fail)
       IN  IF r.err = "" /\ copyfrom
             THEN [err |-> "UnsupportedFeature", wc |-> r.wc]
             ELSE r

\* The body of add_directory after the baton is made.  svn_wc_entry gives
\* a NULL entry for a parent that is not versioned, and reading its url
\* ends the process ("crash").
add_directory_checks(w, path, name, parent_path, copyfrom, target_revision, fail) ==
  IF fail = "check_path" THEN [err |-> "error", wc |-> w]
  ELSE IF w[path].disk # "none" THEN [err |-> "ObstructedUpdate", wc |-> w]
  ELSE IF copyfrom THEN [err |-> "UnsupportedFeature", wc |-> w]
  ELSE IF fail = "entry" THEN [err |-> "error", wc |-> w]
  ELSE IF ~w[parent_path].entry THEN [err |-> "crash", wc |-> w]
  ELSE prep_directory(w, path,
                      svn_path_add_component(w[parent_path].url, name),
                      target_revision, fail)

tree_add_directory ==
  \E parent_baton \in OpenDirs, name \in TreeNames, copyfrom \in BOOLEAN,
     fail \in {"", "check_path", "entry", "ensure_directory", "ensure_wc"} :
    /\ ~edit.failed
    /\ Len(batons) < MaxTreeBatons
    /\ Len(batons[parent_baton].path) < 2
    /\ LET b == WithURL(make_dir_baton(batons, parent_baton, TRUE), wc,
                        edit.is_checkout, parent_baton, name)
           r == add_directory_checks(wc, b[Len(b)].path, name,
                                     b[parent_baton].path, copyfrom,
                                     edit.target_revision, fail)
       IN  TreeReturn([St0 EXCEPT !.batons =
                         [b EXCEPT ![Len(b)].opened = (r.err = "")]],
                      r.wc,
                      TreeCall("add_directory", Len(b), name, copyfrom, r.err))

\* The driver opens the directories the working copy has.
tree_open_directory ==
  \E parent_baton \in OpenDirs, name \in TreeNames :
    /\ ~edit.failed
    /\ Len(batons) < MaxTreeBatons
    /\ Len(batons[parent_baton].path) < 2
    /\ LET path == svn_path_add_component(batons[parent_baton].path, name)
       IN  wc[path].disk = "dir" /\ wc[path].entry
    /\ LET b == WithURL(make_dir_baton(batons, parent_baton, FALSE), wc,
                        edit.is_checkout, parent_baton, name)
       IN  TreeReturn([St0 EXCEPT !.batons = [b EXCEPT ![Len(b)].opened = TRUE]],
                      wc, TreeCall("open_directory", Len(b), name, FALSE, ""))

\* Variant: open_file does not look the name up in the entries.
add_or_open_file_checks_no_lookup(w, path, parent_path, adding, fail) ==
  IF fail \in {"dirents", "entries_read"} THEN "error"
  ELSE IF adding /\ w[path].disk # "none" THEN "ObstructedUpdate"
  ELSE IF fail = "check_wc" THEN "error"
  ELSE IF fail = "no_format" \/ ~w[parent_path].entry THEN "ObstructedUpdate"
  ELSE ""

\* add_file (adding) and open_file: the checks after the baton is made.
\* svn_io_get_dirents, svn_wc_entries_read or svn_wc_check_wc may fail;
\* svn_wc_check_wc answers no for a directory without entries or whose
\* administrative area lost its format file.
add_or_open_file_checks(w, path, parent_path, adding, fail) ==
  IF fail \in {"dirents", "entries_read"} THEN "error"
  ELSE IF adding /\ w[path].disk # "none" THEN "ObstructedUpdate"
  ELSE IF ~adding /\ ~w[path].listed THEN "EntryNotFound"
  ELSE IF fail = "check_wc" THEN "error"
  ELSE IF fail = "no_format" \/ ~w[parent_path].entry THEN "ObstructedUpdate"
  ELSE ""

tree_add_or_open_file ==
  \E parent_baton \in OpenDirs, name \in TreeNames, adding \in BOOLEAN,
     fail \in {"", "dirents", "entries_read", "check_wc", "no_format"} :
    /\ ~edit.failed
    /\ Len(batons) < MaxTreeBatons
    /\ Len(batons[parent_baton].path) < 2
    /\ LET b == WithURL(make_file_baton(batons, parent_baton), wc,
                        edit.is_checkout, parent_baton, name)
           err == add_or_open_file_checks(wc, b[Len(b)].path,
                                          b[parent_baton].path, adding, fail)
       IN  TreeReturn([St0 EXCEPT !.batons =
                         [b EXCEPT ![Len(b)].opened = (err = "")]],
                      wc,
                      [TreeCall(IF adding THEN "add_file" ELSE "open_file",
                                Len(b), name, FALSE, err)
                         EXCEPT !.is_wc = fail # "no_format"])

MaxPropCalls == 1

\* Property names, one component of the name per element.
PropNames ==
  {<<"svn", "wc", "ra_dav">>, <<"svn", "entry", "committed-rev">>,
   <<"color">>}

\* A property value; "NULL" is the null pointer that asks for a delete.
PropValues == {"NULL", "x"}

HasPrefix(name, prefix) ==
  Len(name) >= Len(prefix) /\ SubSeq(name, 1, Len(prefix)) = prefix

svn_wc_is_wc_prop(name) == HasPrefix(name, <<"svn", "wc">>)

svn_wc_is_entry_prop(name) == HasPrefix(name, <<"svn", "entry">>)

svn_wc__strip_entry_prefix(name) == SubSeq(name, 3, Len(name))

\* The pairs of a name -> value store after name is set; a NULL value
\* removes the name.
SetProp(store, name, value) ==
  { pr \in store : pr[1] # name }
    \cup (IF value = "NULL" THEN {} ELSE {<<name, value>>})

\* change_dir_prop when none of its calls fails: what it leaves on disk
\* and in the baton.
change_dir_prop_body(w, b, db, name, value) ==
  LET path == b[db].path
  IN  IF svn_wc_is_wc_prop(name)
        THEN [wc |-> [w EXCEPT ![path].wcprops = SetProp(@, name, value)],
              batons |-> b, class |-> "wc"]
      ELSE IF svn_wc_is_entry_prop(name)
        THEN [wc |-> [w EXCEPT ![path].attrs =
                        SetProp(@, svn_wc__strip_entry_prefix(name),
                                IF value = "NULL" THEN "" ELSE value)],
              batons |-> b, class |-> "entry"]
      ELSE [wc |-> w,
            batons |-> [b EXCEPT
                          ![db].propchanges =
                             Append(@, [name |-> name, value |-> value]),
                          ![db].prop_changed = TRUE],
            class |-> "regular"]

tree_change_dir_prop ==
  \E db \in OpenDirs, name \in PropNames, value \in PropValues,
     ok \in BOOLEAN :
    /\ ~edit.failed
    /\ edit.prop_calls < MaxPropCalls
    /\ LET r == change_dir_prop_body(wc, batons, db, name, value)
           s0 == Touch(St0, db)
           s1 == IF r.class = "wc" THEN svn_wc__wcprop_set(s0, db, ok)
                 ELSE IF r.class = "entry"
                   THEN svn_wc__entry_modify(s0, db, "attributes", ok)
                 ELSE [s0 EXCEPT !.batons = r.batons]
       IN  /\ r.class = "regular" => ok
           /\ TreeReturn(s1, IF s1.err THEN wc ELSE r.wc,
                         [TreeCall("change_dir_prop", db, "", FALSE,
                                   IF s1.err THEN "error" ELSE "")
                            EXCEPT !.prop = name, !.value = value])

Range(seq) == { seq[k] : k \in DOMAIN seq }

DCmd(cmd, attr, value) == [cmd |-> cmd, attr |-> attr, value |-> value]

\* Variant: the prop_time command is written whatever the local state of
\* the properties.
CloseDirLog_always_prop_time(propchanges, target_revision, prop_modified) ==
  <<DCmd("MERGE_PROPS", "", propchanges),
    DCmd("MODIFY_ENTRY", "revision", target_revision),
    DCmd("MODIFY_ENTRY", "prop_time", "WC")>>

\* The entry_accum of close_directory: the commands of
\* svn_wc__merge_prop_diffs, the revision of this_dir, and prop_time when
\* the properties are not locally modified.
CloseDirLog(propchanges, target_revision, prop_modified) ==
  <<DCmd("MERGE_PROPS", "", propchanges),
    DCmd("MODIFY_ENTRY", "revision", target_revision)>>
  \o (IF ~prop_modified
        THEN <<DCmd("MODIFY_ENTRY", "prop_time", "WC")>>
        ELSE <<>>)

\* Replay of such a log on the directory at path.
RECURSIVE RunDirLog(_, _, _)
RunDirLog(w, path, log) ==
  IF log = <<>> THEN w
  ELSE LET c == Head(log)
           w1 == CASE c.cmd = "MERGE_PROPS" ->
                        [w EXCEPT ![path].props = @ \o c.value]
                   [] c.attr = "revision" ->
                        [w EXCEPT ![path].revision = c.value]
                   [] OTHER ->
                        [w EXCEPT ![path].prop_time = c.value]
       IN  RunDirLog(w1, path, Tail(log))

\* The calls close_directory makes on the administrative area when
\* prop_changed is set, in order.
CloseDirSteps ==
  <<"lock", "open", "merge", "props_modified", "write", "close", "run",
    "unlock">>

\* The calls made up to and including the one that fails (all of them
\* when none does).
StepsUntil(fail) ==
  IF fail = "" THEN CloseDirSteps
  ELSE SubSeq(CloseDirSteps, 1,
              CHOOSE k \in 1..Len(CloseDirSteps) : CloseDirSteps[k] = fail)

\* Variant: an added directory is listed in its parent as soon as its own
\* close_directory has run.
FreeEffects_listed_at_close(w, before, st, failAt) ==
  LET retired_(d) == st.batons[d].retired > before[d].retired
      bumped(d) == /\ before[d].kind = "dir"
                   /\ edit.is_checkout \/ before[d].parent # 0
                   /\ retired_(d) \/ (st.err /\ failAt = <<d, 2>>)
      listed(d) == /\ st.batons[d].close_run /\ ~before[d].close_run
                   /\ before[d].added /\ before[d].parent # 0
  IN  [q \in TreePaths |->
         LET ds == { d \in DOMAIN before : before[d].path = q }
         IN  [w[q] EXCEPT
                !.revision = IF \E d \in ds : bumped(d)
                               THEN edit.target_revision ELSE @,
                !.listed = @ \/ \E d \in ds : listed(d),
                !.kind = IF \E d \in ds : listed(d) THEN "dir" ELSE @]]

\* What the svn_wc__entry_modify calls of free_dir_baton wrote: the
\* revision of each retired directory (and of one whose second call
\* failed), and the listing, with kind dir, of an added directory in its
\* parent.
FreeEffects(w, before, st, failAt) ==
  LET retired_(d) == st.batons[d].retired > before[d].retired
      bumped(d) == /\ before[d].kind = "dir"
                   /\ edit.is_checkout \/ before[d].parent # 0
                   /\ retired_(d) \/ (st.err /\ failAt = <<d, 2>>)
      listed(d) == retired_(d) /\ before[d].added /\ before[d].parent # 0
  IN  [q \in TreePaths |->
         LET ds == { d \in DOMAIN before : before[d].path = q }
         IN  [w[q] EXCEPT
                !.revision = IF \E d \in ds : bumped(d)
                               THEN edit.target_revision ELSE @,
                !.listed = @ \/ \E d \in ds : listed(d),
                !.kind = IF \E d \in ds : listed(d) THEN "dir" ELSE @]]

tree_close_directory ==
  \E db \in OpenDirs, fail \in {""} \cup Range(CloseDirSteps) :
    \E failAt \in FailPoints(db) :
      /\ ~edit.failed
      /\ ~batons[db].prop_changed => fail = ""
      /\ fail # "" => failAt = <<0, 0>>
      /\ LET path == batons[db].path
             log == CloseDirLog(batons[db].propchanges, edit.target_revision,
                                wc[path].props_modified)
             ran == batons[db].prop_changed /\ fail \in {"", "unlock"}
             s0 == [Touch(St0, db) EXCEPT
                      !.batons[db].close_run = TRUE,
                      !.batons[db].early = batons[db].ref_count > 1]
             s1 == IF ran THEN LoggedChange(s0, db, "props") ELSE s0
             s2 == IF fail # "" THEN [s1 EXCEPT !.err = TRUE]
                   ELSE decrement_ref_count(s1, db, failAt)
             w1 == IF ran THEN RunDirLog(wc, path, log) ELSE wc
             call == TreeCall("close_directory", db, "", FALSE,
                              IF s2.err THEN "error" ELSE "")
         IN  TreeReturn(IF s2.err THEN s2
                        ELSE [s2 EXCEPT !.batons[db].closed = TRUE],
                        FreeEffects(w1, batons, s2, failAt),
                        IF batons[db].prop_changed
                          THEN [call EXCEPT
                                  !.steps = StepsUntil(fail),
                                  !.log = IF fail \in {"", "close", "run",
                                                       "unlock"}
                                            THEN log ELSE <<>>]
                          ELSE call)

NextTree ==
  /\ \/ tree_open_root
     \/ tree_add_directory
     \/ tree_open_directory
     \/ tree_add_or_open_file
     \/ tree_close_directory
  /\ UNCHANGED <<pc, run, scen, status, lockVars, dagVars>>

SpecTree == InitTree /\ [][NextTree]_vars

----------------------------------------------------------------------------
(* SpecProps: property changes of the directories of a small edit          *)

MaxPropBatons == 2

\* An update of the working copy of UpdateTree; the properties of its
\* directories are locally modified or not.
InitProps ==
  /\ edit = [is_checkout |-> FALSE, failed |-> FALSE, uaf |-> FALSE,
             target_revision |-> NewRev, prop_calls |-> 0]
  /\ \E props_modified \in BOOLEAN :
       wc = UpdateTree({}, FALSE, props_modified)
  /\ batons = <<>>
  /\ admlog = {}
  /\ hist = TreeCall("", 0, "", FALSE, "")
  /\ pc = ""
  /\ run = <<>>
  /\ scen = <<>>
  /\ status = <<>>
  /\ IdleLock
  /\ IdleDag

NextProps ==
  /\ \/ tree_open_root
     \/ tree_open_directory
     \/ tree_change_dir_prop
     \/ tree_close_directory
  /\ Len(batons') <= MaxPropBatons
  /\ UNCHANGED <<pc, run, scen, status, lockVars, dagVars>>

SpecProps == InitProps /\ [][NextProps]_vars

----------------------------------------------------------------------------
(* Claims checked under SpecTree                                           *)

\* The baton of the last tree callback, its path and its parent's path.
CallPath == batons[hist.baton].path

CallParentPath == batons[batons[hist.baton].parent].path

\* C24: add_directory returns ObstructedUpdate when something is on disk
\* at parent/name and UnsupportedFeature when the path is free and copyfrom
\* arguments are given (unless a system call fails first); both leave the
\* disk and the entries as they were; with a free path and no copyfrom it
\* does not fail that way, and on success the new directory is a working
\* copy whose URL is the parent entry's URL joined with name and whose
\* revision is the edit's target revision.
C24_AddDirectory ==
  [][(hist'.op = "add_directory" /\ batons' # batons) =>
       LET path == batons'[hist'.baton].path
           parent_path == batons'[batons'[hist'.baton].parent].path
           free == wc[path].disk = "none"
       IN  /\ (~free /\ hist'.err # "error") => hist'.err = "ObstructedUpdate"
           /\ (free /\ hist'.copyfrom /\ hist'.err # "error")
                => hist'.err = "UnsupportedFeature"
           /\ hist'.err \in {"ObstructedUpdate", "UnsupportedFeature"}
                => (wc' = wc /\ admlog' = admlog)
           /\ (free /\ ~hist'.copyfrom)
                => hist'.err \notin {"ObstructedUpdate", "UnsupportedFeature"}
           /\ hist'.err = ""
                => /\ wc'[path].disk = "dir"
                   /\ wc'[path].entry
                   /\ wc'[path].url =
                        svn_path_add_component(wc[parent_path].url, hist'.name)
                   /\ wc'[path].revision = edit.target_revision
                   /\ \A q \in TreePaths \ {path} : wc'[q] = wc[q]]_vars

\* An update has added directory b under the anchor.
C24_Witness ==
  /\ hist.op = "add_directory"
  /\ hist.err = ""
  /\ ~edit.is_checkout
  /\ CallPath = <<"b">>
  /\ wc[<<"b">>].url = <<"u", "b">>
  /\ wc[<<"b">>].revision = NewRev

\* The batons handed to the driver.
Opened == { i \in DOMAIN batons : batons[i].opened }

\* What the flag of baton i is said to be: the entry's stored URL is not
\* the parent baton's URL joined with the name, or the parent is disjoint.
DisjointAsStored(i) ==
  \/ batons[batons[i].parent].disjoint_url
  \/ wc[batons[i].path].url #
       svn_path_add_component(batons[batons[i].parent].URL, batons[i].name)

\* C27: a file or directory baton opened in an update or switch, whose
\* path has an entry, is disjoint exactly when the entry's stored URL is
\* not the parent baton's URL joined with the name or the parent baton is
\* disjoint; the root baton and the batons of a checkout are never
\* disjoint; the flag of a baton never changes.
C27_DisjointExactlyWhenStoredURLDiffers ==
  /\ [](\A i \in Opened :
          /\ (edit.is_checkout \/ batons[i].parent = 0)
               => ~batons[i].disjoint_url
          /\ (~edit.is_checkout /\ batons[i].parent # 0
                 /\ wc[batons[i].path].entry)
               => (batons[i].disjoint_url <=> DisjointAsStored(i)))
  /\ [][\A i \in DOMAIN batons :
          batons'[i].disjoint_url = batons[i].disjoint_url]_vars

\* C30: change_dir_prop routes by the property's name.  A wc-prop is
\* stored out of band and nothing else changes; an entry-prop is queued
\* and nothing on disk changes until close_directory; any other property
\* is appended to the baton's propchanges, in call order, and sets
\* prop_changed, and nothing on disk changes; only that last kind changes
\* prop_changed.
C30_ChangeDirPropRoutes ==
  [][tree_change_dir_prop =>
       LET db == hist'.baton
           path == batons[db].path
           name == hist'.prop
       IN  hist'.err = "" =>
             /\ svn_wc_is_wc_prop(name)
                  => /\ wc'[path].wcprops =
                          SetProp(wc[path].wcprops, name, hist'.value)
                     /\ [wc' EXCEPT ![path].wcprops = wc[path].wcprops] = wc
                     /\ batons' = batons
             /\ (~svn_wc_is_wc_prop(name) /\ svn_wc_is_entry_prop(name))
                  => (wc' = wc /\ batons'[db].prop_changed = batons[db].prop_changed)
             /\ (~svn_wc_is_wc_prop(name) /\ ~svn_wc_is_entry_prop(name))
                  => /\ batons'[db].propchanges =
                          Append(batons[db].propchanges,
                                 [name |-> name, value |-> hist'.value])
                     /\ batons'[db].prop_changed
                     /\ wc' = wc]_vars

\* C29: a close_directory that returns success, with queued property
\* changes, has locked first and unlocked last, has written and run a log
\* that merges the queued changes, sets the revision of this_dir to the
\* target and sets prop_time only if the properties are not locally
\* modified; with nothing queued it makes none of these calls and writes
\* no log; either way the baton's own ref_count drops by one, the baton is
\* retired exactly when the count reaches 0, and the parent's count drops
\* by one exactly when the baton is retired.
C29_CloseDirectory ==
  [][tree_close_directory =>
       LET db == hist'.baton
           path == batons[db].path
           parent_ == batons[db].parent
           retired_ == batons'[db].retired > batons[db].retired
       IN  hist'.err = "" =>
             /\ batons[db].prop_changed
                  => /\ Head(hist'.steps) = "lock"
                     /\ hist'.steps[Len(hist'.steps)] = "unlock"
                     /\ hist'.steps = CloseDirSteps
                     /\ hist'.log =
                          <<DCmd("MERGE_PROPS", "", batons[db].propchanges),
                            DCmd("MODIFY_ENTRY", "revision",
                                 edit.target_revision)>>
                          \o (IF wc[path].props_modified THEN <<>>
                              ELSE <<DCmd("MODIFY_ENTRY", "prop_time", "WC")>>)
                     /\ wc'[path].props =
                          wc[path].props \o batons[db].propchanges
                     /\ wc'[path].revision = edit.target_revision
                     /\ wc'[path].prop_time =
                          IF wc[path].props_modified
                            THEN wc[path].prop_time ELSE "WC"
                     /\ AdmWrite("props", TRUE, TRUE) \in admlog'
             /\ ~batons[db].prop_changed
                  => /\ hist'.steps = <<>>
                     /\ hist'.log = <<>>
                     /\ wc'[path].props = wc[path].props
                     /\ wc'[path].prop_time = wc[path].prop_time
             /\ batons'[db].ref_count = batons[db].ref_count - 1
             /\ retired_ <=> batons'[db].ref_count = 0
             /\ parent_ # 0
                  => batons'[parent_].ref_count =
                       batons[parent_].ref_count - (IF retired_ THEN 1 ELSE 0)]_vars

\* A directory with one queued property change and locally modified
\* properties has been closed and retired.
C29_Witness ==
  /\ hist.op = "close_directory"
  /\ hist.err = ""
  /\ hist.steps = CloseDirSteps
  /\ Len(hist.log) = 2
  /\ batons[hist.baton].parent # 0
  /\ batons[hist.baton].retired = 1
  /\ wc[CallPath].props = <<[name |-> <<"color">>, value |-> "x"]>>
  /\ wc[CallPath].props_modified
  /\ wc[CallPath].prop_time = "old"
  /\ wc[CallPath].revision = NewRev

\* C36: add_file fails with ObstructedUpdate when an object of that name
\* is on disk in the parent directory and succeeds when the name is
\* absent from disk, already in the parent's entries or not; open_file
\* fails with EntryNotFound when the name has no entry in the parent; past
\* these checks both fail with ObstructedUpdate when the parent directory
\* is not a working copy; a failing call changes neither the disk nor the
\* entries.  (A system call that fails returns its own error.)
C36_AddOrOpenFile ==
  [][(hist'.op \in {"add_file", "open_file"} /\ batons' # batons) =>
       LET path == batons'[hist'.baton].path
           parent_path == batons'[batons'[hist'.baton].parent].path
           adding == hist'.op = "add_file"
           on_disk == wc[path].disk # "none"
           is_wc == hist'.is_wc /\ wc[parent_path].entry
       IN  /\ hist'.err # "error" =>
                /\ (adding /\ on_disk) => hist'.err = "ObstructedUpdate"
                /\ (adding /\ ~on_disk /\ is_wc) => hist'.err = ""
                /\ (~adding /\ ~wc[path].listed)
                     => hist'.err = "EntryNotFound"
                /\ (~is_wc /\ (adding \/ wc[path].listed))
                     => hist'.err = "ObstructedUpdate"
                /\ (~adding /\ wc[path].listed /\ is_wc) => hist'.err = ""
           /\ hist'.err # "" => (wc' = wc /\ admlog' = admlog)]_vars

\* add_file has succeeded on a/b, which is in the entries of a and was
\* deleted from disk.
C36_Witness ==
  /\ hist.op = "add_file" /\ hist.err = ""
  /\ batons[hist.baton].path = <<"a", "b">>
  /\ wc[<<"a", "b">>].listed
  /\ wc[<<"a", "b">>].disk = "none"

\* open_file of a versioned name has failed on a parent that is not a
\* working copy.
OpenFileInNonWc ==
  /\ hist.op = "open_file" /\ hist.err = "ObstructedUpdate"
  /\ wc[batons[hist.baton].path].listed
  /\ ~hist.is_wc

\* C37: when add_directory, add_file or open_file returns an error, the
\* ref_count of the parent directory baton is what it was before the
\* call.
C37_FailedOpenKeepsRefCount ==
  [][(/\ hist'.op \in {"add_directory", "add_file", "open_file"}
      /\ batons' # batons
      /\ hist'.err \notin {"", "crash"}) =>
       LET parent == batons'[hist'.baton].parent
       IN  batons'[parent].ref_count = batons[parent].ref_count]_vars

\* The batons that are retired by the step.
Retiring(d) == d \in DOMAIN batons /\ batons'[d].retired > batons[d].retired

----------------------------------------------------------------------------
(* SpecTarget: svn_wc_get_actual_target on any path                        *)

NoURL == <<>>
NoTarget == "NULL"

\* An entry as svn_wc_entry returns it: none, or one with or without a
\* URL; for the parent the call may also fail.
TargetEntries ==
  [found : {TRUE}, err : {FALSE}, url : {NoURL, <<"u", "x">>, <<"v", "x">>}]
    \cup {[found |-> FALSE, err |-> FALSE, url |-> NoURL]}

ParentEntries ==
  [found : {TRUE}, err : {FALSE}, url : {NoURL, <<"u">>}]
    \cup [found : {FALSE}, err : BOOLEAN, url : {NoURL}]

\* The paths asked about: the current directory, x and y in it, x in d.
TargetInputs ==
  [path : {<<>>, <<"x">>, <<"y">>, <<"d", "x">>}, entry : TargetEntries,
   p_entry : ParentEntries]

svn_path_is_empty(path) == path = <<>>

\* svn_path_split: the directory part and the last component.
svn_path_split(path) ==
  [dirpath |-> SubSeq(path, 1, Len(path) - 1), basename |-> path[Len(path)]]

WcRoot(err, wc_root) == [err |-> err, wc_root |-> wc_root]

\* Variant: the URLs are not compared.
svn_wc_is_wc_root_no_url(in) ==
  IF ~in.entry.found THEN WcRoot("EntryNotFound", TRUE)
  ELSE IF svn_path_is_empty(in.path) THEN WcRoot("", TRUE)
  ELSE IF in.p_entry.err \/ ~in.p_entry.found THEN WcRoot("", TRUE)
  ELSE IF in.p_entry.url = NoURL THEN WcRoot("EntryMissingURL", TRUE)
  ELSE WcRoot("", FALSE)

\* svn_wc_is_wc_root (update_editor.c 2516-2568).
svn_wc_is_wc_root(in) ==
  IF ~in.entry.found THEN WcRoot("EntryNotFound", TRUE)
  ELSE IF svn_path_is_empty(in.path) THEN WcRoot("", TRUE)
  ELSE IF in.p_entry.err \/ ~in.p_entry.found THEN WcRoot("", TRUE)
  ELSE IF in.p_entry.url = NoURL THEN WcRoot("EntryMissingURL", TRUE)
  ELSE LET expected_url ==
             svn_path_add_component(in.p_entry.url,
                                    svn_path_split(in.path).basename)
       IN  IF in.entry.url # NoURL /\ expected_url # in.entry.url
             THEN WcRoot("", TRUE)
             ELSE WcRoot("", FALSE)

\* svn_wc_get_actual_target (2571-2594); anchor and target are not set
\* when svn_wc_is_wc_root fails.
svn_wc_get_actual_target(in) ==
  LET r == svn_wc_is_wc_root(in)
  IN  IF r.err # ""
        THEN [err |-> r.err, anchor |-> <<>>, target |-> NoTarget]
      ELSE IF r.wc_root
        THEN [err |-> "", anchor |-> in.path, target |-> NoTarget]
      ELSE LET sp == svn_path_split(in.path)
           IN  [err |-> "",
                anchor |-> IF svn_path_is_empty(sp.dirpath) THEN <<".">>
                           ELSE sp.dirpath,
                target |-> sp.basename]

InitTarget ==
  /\ scen \in TargetInputs
  /\ run = [done |-> FALSE, err |-> "", anchor |-> <<>>, target |-> NoTarget]
  /\ wc = <<>>
  /\ pc = ""
  /\ hist = <<>>
  /\ status = <<>>
  /\ IdleLock
  /\ IdleBaton
  /\ IdleDag

get_actual_target ==
  /\ ~run.done
  /\ run' = svn_wc_get_actual_target(scen) @@ [done |-> TRUE]
  /\ UNCHANGED <<wc, pc, scen, hist, status>>

NextTarget ==
  /\ get_actual_target
  /\ UNCHANGED <<lockVars, batonVars, dagVars>>

SpecTarget == InitTarget /\ [][NextTarget]_vars

\* path is a working-copy root: it is empty, or its parent has no entry,
\* or its entry has a URL that is not the parent's URL joined with the
\* basename.
IsWcRoot ==
  \/ scen.path = <<>>
  \/ ~scen.p_entry.found
  \/ /\ scen.entry.url # NoURL
     /\ scen.entry.url # scen.p_entry.url \o <<scen.path[Len(scen.path)]>>

----------------------------------------------------------------------------
(* SpecDag: node ids, node revisions and the store under dag.c             *)

MaxOps == 1
MaxNodeKey == 3

Txns == {1, 2}
CopyIds == {0, 1}

\* A node revision id: node key, copy id, and either a transaction id or
\* a revision; txn = 0 is the null transaction id of a committed id.
Id(node, copy, txn, rev) == [node |-> node, copy |-> copy, txn |-> txn, rev |-> rev]

NoId == Id(0, 0, 0, 0)

svn_fs__id_txn_id(id) == id.txn

svn_fs__id_eq(a, b) == a = b

svn_fs_check_related(a, b) == a.node = b.node

\* Entry names and paths are strings of characters.
Names == { <<"a">>, <<"b">>, <<"a", "/", "b">>, <<".", ".">> }

svn_path_is_single_path_component(name) ==
  /\ name # <<>>
  /\ name # <<".", ".">>
  /\ \A i \in 1..Len(name) : name[i] # "/"

svn_path_join(base, component) ==
  IF base = <<"/">> THEN base \o component ELSE base \o <<"/">> \o component

\* svn_fs__node_revision_t, with the directory's entries list held in the
\* node revision's representation.
NodeRev(kind, predecessor_id, predecessor_count, created_path, entries) ==
  [kind |-> kind, predecessor_id |-> predecessor_id,
   predecessor_count |-> predecessor_count, created_path |-> created_path,
   entries |-> entries, edit_key |-> FALSE]

NoNodeRev == NodeRev("none", NoId, 0, <<>>, <<>>)

NoEntries == <<>>

Dirent(id, kind) == [id |-> id, kind |-> kind]

\* dag_node_t
DagNode(id, kind, created_path, node_revision) ==
  [id |-> id, kind |-> kind, created_path |-> created_path,
   node_revision |-> node_revision]

NoNode == DagNode(NoId, "none", <<>>, NoNodeRev)

\* get_node_revision returns the handle's cached copy.
get_node_revision(node) == node.node_revision

\* Variant: every node passes for mutable.
svn_fs__dag_check_mutable_always(node, txn_id) == TRUE

svn_fs__dag_check_mutable(node, txn_id) == svn_fs__id_txn_id(node.id) # 0

\* svn_fs__dag_get_node: a new handle with the node revision read in.
svn_fs__dag_get_node(store, id) ==
  DagNode(id, store[id].kind, store[id].created_path, store[id])

\* svn_fs__fs_rep_contents_dir: the entries of the directory as stored.
svn_fs__fs_rep_contents_dir(store, noderev) == noderev.entries

\* dir_entry_id_from_node: the id of entry NAME, or the null id.
dir_entry_id_from_node(store, parent, name) ==
  LET entries == svn_fs__fs_rep_contents_dir(store, get_node_revision(parent))
  IN  IF name \in DOMAIN entries THEN entries[name].id ELSE NoId

\* What a DAG call leaves: the store, the error returned ("" for none),
\* the handle returned and the handle on the parent's current entry that
\* clone_child worked on.
Result(store, err, node, cur_entry) ==
  [store |-> store, err |-> err, node |-> node, cur_entry |-> cur_entry]

\* The store calls that can return an error of their own.
FailSteps == {"none", "create", "get_node", "set_entry"}

NextNodeKey(store) ==
  1 + CHOOSE k \in 0..(MaxNodeKey + 1) :
        /\ \A id \in DOMAIN store : id.node <= k
        /\ \E id \in DOMAIN store : id.node = k

\* svn_fs__fs_create_node: stores the node revision under a new node key,
\* the given copy id and the transaction.
svn_fs__fs_create_node(store, noderev, copy_id, txn_id) ==
  LET id == Id(NextNodeKey(store), copy_id, txn_id, 0)
  IN  [i \in DOMAIN store \cup {id} |-> IF i = id THEN noderev ELSE store[i]]

\* svn_fs__fs_create_successor: copies the template, sets its predecessor
\* to OLD_ID, increments predecessor_count when it is not negative, and
\* stores it under OLD_ID's node key, the copy id and the transaction.
svn_fs__fs_create_successor(store, old_id, new_noderev, copy_id, txn_id) ==
  LET id == Id(old_id.node, copy_id, txn_id, 0)
      nr == [new_noderev EXCEPT
               !.predecessor_id = old_id,
               !.predecessor_count = IF @ >= 0 THEN @ + 1 ELSE @]
  IN  [i \in DOMAIN store \cup {id} |-> IF i = id THEN nr ELSE store[i]]

\* svn_fs__fs_set_entry: adds or replaces entry NAME of the directory.
svn_fs__fs_set_entry(store, parent_id, name, id, kind) ==
  LET e == store[parent_id].entries
      e2 == [n \in DOMAIN e \cup {name} |->
               IF n = name THEN Dirent(id, kind) ELSE e[n]]
  IN  [store EXCEPT ![parent_id].entries = e2]

set_entry(store, parent, name, id, kind, txn_id) ==
  svn_fs__fs_set_entry(store, parent.id, name, id, kind)

\* Variant: the entry is set in the parent before the child is created.
make_entry_register_first(store, parent, parent_path, name, is_dir, txn_id, fail) ==
  IF ~svn_path_is_single_path_component(name)
    THEN Result(store, "NotSinglePathComponent", NoNode, NoNode)
  ELSE IF parent.kind # "dir"
    THEN Result(store, "NotDirectory", NoNode, NoNode)
  ELSE IF ~svn_fs__dag_check_mutable(parent, txn_id)
    THEN Result(store, "NotMutable", NoNode, NoNode)
  ELSE IF dir_entry_id_from_node(store, parent, name) # NoId
    THEN Result(store, "AlreadyExists", NoNode, NoNode)
  ELSE IF fail = "set_entry"
    THEN Result(store, "io", NoNode, NoNode)
  ELSE
    LET new_noderev == NodeRev(IF is_dir THEN "dir" ELSE "file", NoId, 0,
                               svn_path_join(parent_path, name), NoEntries)
        new_node_id == Id(NextNodeKey(store), parent.id.copy, txn_id, 0)
        s0 == set_entry(store, parent, name, new_node_id, new_noderev.kind,
                        txn_id)
        s1 == svn_fs__fs_create_node(s0, new_noderev, parent.id.copy, txn_id)
    IN  IF fail = "create" THEN Result(s0, "io", NoNode, NoNode)
        ELSE IF fail = "get_node" THEN Result(s1, "io", NoNode, NoNode)
        ELSE Result(s1, "", svn_fs__dag_get_node(s1, new_node_id), NoNode)

make_entry(store, parent, parent_path, name, is_dir, txn_id, fail) ==
  IF ~svn_path_is_single_path_component(name)
    THEN Result(store, "NotSinglePathComponent", NoNode, NoNode)
  ELSE IF parent.kind # "dir"
    THEN Result(store, "NotDirectory", NoNode, NoNode)
  ELSE IF ~svn_fs__dag_check_mutable(parent, txn_id)
    THEN Result(store, "NotMutable", NoNode, NoNode)
  ELSE IF dir_entry_id_from_node(store, parent, name) # NoId
    THEN Result(store, "AlreadyExists", NoNode, NoNode)
  ELSE IF fail = "create"
    THEN Result(store, "io", NoNode, NoNode)
  ELSE
    LET new_noderev == NodeRev(IF is_dir THEN "dir" ELSE "file", NoId, 0,
                               svn_path_join(parent_path, name), NoEntries)
        new_node_id == Id(NextNodeKey(store), parent.id.copy, txn_id, 0)
        s1 == svn_fs__fs_create_node(store, new_noderev, parent.id.copy, txn_id)
        child == svn_fs__dag_get_node(s1, new_node_id)
    IN  IF fail = "get_node" THEN Result(s1, "io", NoNode, NoNode)
        ELSE IF fail = "set_entry" THEN Result(s1, "io", child, NoNode)
        ELSE Result(set_entry(s1, parent, name, child.id, new_noderev.kind,
                              txn_id),
                    "", child, NoNode)

svn_fs__dag_make_file(store, parent, parent_path, name, txn_id, fail) ==
  make_entry(store, parent, parent_path, name, FALSE, txn_id, fail)

\* Variant: the directory is made with the kind of a file.
svn_fs__dag_make_dir_as_file(store, parent, parent_path, name, txn_id, fail) ==
  make_entry(store, parent, parent_path, name, FALSE, txn_id, fail)

svn_fs__dag_make_dir(store, parent, parent_path, name, txn_id, fail) ==
  make_entry(store, parent, parent_path, name, TRUE, txn_id, fail)

svn_fs__dag_set_entry(store, node, entry_name, id, txn_id, fail) ==
  IF node.kind # "dir"
    THEN Result(store, "NotDirectory", NoNode, NoNode)
  ELSE IF ~svn_fs__dag_check_mutable(node, txn_id)
    THEN Result(store, "NotDirectory", NoNode, NoNode)
  ELSE IF fail = "set_entry"
    THEN Result(store, "io", NoNode, NoNode)
  ELSE Result(set_entry(store, node, entry_name, id, node.kind, txn_id),
              "", NoNode, NoNode)

\* svn_fs__dag_copy without history.
svn_fs__dag_copy(store, to_node, entry, from_node, txn_id, fail) ==
  svn_fs__dag_set_entry(store, to_node, entry, from_node.id, txn_id, fail)

svn_fs__dag_open(store, parent, name, fail) ==
  IF get_node_revision(parent).kind # "dir"
    THEN Result(store, "NotDirectory", NoNode, NoNode)
  ELSE IF dir_entry_id_from_node(store, parent, name) = NoId
    THEN Result(store, "NotFound", NoNode, NoNode)
  ELSE IF ~svn_path_is_single_path_component(name)
    THEN Result(store, "NotSinglePathComponent", NoNode, NoNode)
  ELSE IF fail = "get_node"
    THEN Result(store, "io", NoNode, NoNode)
  ELSE Result(store, "",
              svn_fs__dag_get_node(store,
                                   dir_entry_id_from_node(store, parent, name)),
              NoNode)

\* Variant: a successor is made of a child that is already mutable.
svn_fs__dag_clone_child_always(store, parent, parent_path, name, copy_id, txn_id, fail) ==
  IF ~svn_fs__dag_check_mutable(parent, txn_id)
    THEN Result(store, "NotMutable", NoNode, NoNode)
  ELSE IF ~svn_path_is_single_path_component(name)
    THEN Result(store, "NotSinglePathComponent", NoNode, NoNode)
  ELSE
    LET opened == svn_fs__dag_open(store, parent, name, "none")
        cur_entry == opened.node
    IN  IF opened.err # "" THEN opened
        ELSE
          \* the node revision cached in CUR_ENTRY is changed in place
          LET noderev == [get_node_revision(cur_entry) EXCEPT
                            !.predecessor_id = cur_entry.id,
                            !.predecessor_count = IF @ # -1 THEN @ + 1 ELSE @,
                            !.created_path = svn_path_join(parent_path, name)]
              changed == [cur_entry EXCEPT !.node_revision = noderev]
              new_node_id == Id(cur_entry.id.node, copy_id, txn_id, 0)
              s1 == svn_fs__fs_create_successor(store, cur_entry.id, noderev,
                                                copy_id, txn_id)
              s2 == set_entry(s1, parent, name, new_node_id, noderev.kind,
                              txn_id)
          IN  IF fail = "create" THEN Result(store, "io", NoNode, changed)
              ELSE IF fail = "set_entry" THEN Result(s1, "io", NoNode, changed)
              ELSE IF fail = "get_node" THEN Result(s2, "io", NoNode, changed)
              ELSE Result(s2, "", svn_fs__dag_get_node(s2, new_node_id),
                          changed)

svn_fs__dag_clone_child(store, parent, parent_path, name, copy_id, txn_id, fail) ==
  IF ~svn_fs__dag_check_mutable(parent, txn_id)
    THEN Result(store, "NotMutable", NoNode, NoNode)
  ELSE IF ~svn_path_is_single_path_component(name)
    THEN Result(store, "NotSinglePathComponent", NoNode, NoNode)
  ELSE
    LET opened == svn_fs__dag_open(store, parent, name, "none")
        cur_entry == opened.node
    IN  IF opened.err # "" THEN opened
        ELSE IF svn_fs__dag_check_mutable(cur_entry, txn_id)
          THEN IF fail = "get_node"
                 THEN Result(store, "io", NoNode, cur_entry)
                 ELSE Result(store, "",
                             svn_fs__dag_get_node(store, cur_entry.id),
                             cur_entry)
        ELSE
          \* the node revision cached in CUR_ENTRY is changed in place
          LET noderev == [get_node_revision(cur_entry) EXCEPT
                            !.predecessor_id = cur_entry.id,
                            !.predecessor_count = IF @ # -1 THEN @ + 1 ELSE @,
                            !.created_path = svn_path_join(parent_path, name)]
              changed == [cur_entry EXCEPT !.node_revision = noderev]
              new_node_id == Id(cur_entry.id.node, copy_id, txn_id, 0)
              s1 == svn_fs__fs_create_successor(store, cur_entry.id, noderev,
                                                copy_id, txn_id)
              s2 == set_entry(s1, parent, name, new_node_id, noderev.kind,
                              txn_id)
          IN  IF fail = "create" THEN Result(store, "io", NoNode, changed)
              ELSE IF fail = "set_entry" THEN Result(s1, "io", NoNode, changed)
              ELSE IF fail = "get_node" THEN Result(s2, "io", NoNode, changed)
              ELSE Result(s2, "", svn_fs__dag_get_node(s2, new_node_id),
                          changed)

\* svn_fs__fs_set_contents marks the node revision as being edited.
svn_fs__dag_get_edit_stream(store, file, txn_id, fail) ==
  IF file.kind # "file"
    THEN Result(store, "NotFile", NoNode, NoNode)
  ELSE IF ~svn_fs__dag_check_mutable(file, txn_id)
    THEN Result(store, "NotMutable", NoNode, NoNode)
  ELSE IF fail = "create"
    THEN Result(store, "io", NoNode, NoNode)
  ELSE Result([store EXCEPT ![file.id].edit_key = TRUE], "", NoNode, NoNode)

\* With an edit key the function ends the process ("abort").
svn_fs__dag_finalize_edits(store, file, txn_id, fail) ==
  IF file.kind # "file"
    THEN Result(store, "NotFile", NoNode, NoNode)
  ELSE IF ~svn_fs__dag_check_mutable(file, txn_id)
    THEN Result(store, "NotMutable", NoNode, NoNode)
  ELSE IF ~get_node_revision(file).edit_key
    THEN Result(store, "", NoNode, NoNode)
  ELSE Result(store, "abort", NoNode, NoNode)

\* svn_fs__dag_walk_predecessors: the nodes the callback is called with,
\* in order; NoNode is the null node of the last call.  The callback sets
\* DONE at its first call with a node when stop_at_first.
RECURSIVE WalkFrom(_, _, _)
WalkFrom(store, this_node, stop_at_first) ==
  LET noderev == get_node_revision(this_node)
  IN  IF noderev.predecessor_id # NoId
        THEN LET pred == svn_fs__dag_get_node(store, noderev.predecessor_id)
             IN  IF stop_at_first THEN <<pred>>
                 ELSE <<pred>> \o WalkFrom(store, pred, stop_at_first)
        ELSE <<NoNode>>

\* Variant: the callback is called with the starting node as well.
svn_fs__dag_walk_predecessors_from_self(store, node, stop_at_first) ==
  <<node>> \o WalkFrom(store, node, stop_at_first)

svn_fs__dag_walk_predecessors(store, node, stop_at_first) ==
  WalkFrom(store, node, stop_at_first)

\* is_ancestor_callback over the calls of the walk.
is_ancestor_callback(calls, node1_id) ==
  \E i \in 1..Len(calls) :
    calls[i] # NoNode /\ svn_fs__id_eq(node1_id, calls[i].id)

svn_fs__dag_is_ancestor(store, node1, node2) ==
  IF ~svn_fs_check_related(node1.id, node2.id) THEN FALSE
  ELSE is_ancestor_callback(
         svn_fs__dag_walk_predecessors(store, node2, FALSE), node1.id)

\* Variant: the walk for parenthood does not stop at the first predecessor.
svn_fs__dag_is_parent_whole_walk(store, node1, node2) ==
  IF ~svn_fs_check_related(node1.id, node2.id) THEN FALSE
  ELSE is_ancestor_callback(
         svn_fs__dag_walk_predecessors(store, node2, FALSE), node1.id)

svn_fs__dag_is_parent(store, node1, node2) ==
  IF ~svn_fs_check_related(node1.id, node2.id) THEN FALSE
  ELSE is_ancestor_callback(
         svn_fs__dag_walk_predecessors(store, node2, TRUE), node1.id)

----------------------------------------------------------------------------
(* SpecDag: calls on the store                                             *)

NameA == <<"a">>

RootRev == Id(1, 0, 0, 1)
ChildOld == Id(2, 0, 0, 0)
ChildRev == Id(2, 0, 0, 1)
TxnRoot(t) == Id(1, 0, t, 0)

\* Revision 1 holds the root directory with one entry "a", a file or a
\* directory that has one predecessor; each transaction has a root cloned
\* from revision 1.  counted = FALSE: the predecessor counts are unknown.
\* Two repositories are tried: a file with counted history and a
\* directory with unknown counts, each with both transactions new and
\* with transaction 2 under way.
InitStore(child_kind, counted) ==
  LET entries == [n \in {NameA} |-> Dirent(ChildRev, child_kind)]
      ids == {RootRev, ChildOld, ChildRev} \cup { TxnRoot(t) : t \in Txns }
  IN  [i \in ids |->
         CASE i = RootRev ->
                NodeRev("dir", NoId, IF counted THEN 0 ELSE -1, <<"/">>, entries)
           [] i = ChildOld ->
                NodeRev(child_kind, NoId, IF counted THEN 0 ELSE -1,
                        <<"/", "a">>, NoEntries)
           [] i = ChildRev ->
                NodeRev(child_kind, ChildOld, IF counted THEN 1 ELSE -1,
                        <<"/", "a">>, NoEntries)
           [] OTHER ->
                NodeRev("dir", RootRev, IF counted THEN 1 ELSE -1, <<"/">>,
                        entries)]

\* The record of a call: what was called with what, the store call that
\* failed in it, and what came back.
Call(op, txn_id, target, name, arg, parent_path, fail, r, before, n) ==
  [op |-> op, txn |-> txn_id, target |-> target, name |-> name, arg |-> arg,
   parent_path |-> parent_path, fail |-> fail, err |-> r.err, node |-> r.node,
   cur_entry |-> r.cur_entry, before |-> before, n |-> n]

NoCall ==
  Call("none", 0, NoId, <<>>, NoId, <<>>, "none",
       Result(<<>>, "", NoNode, NoNode), <<>>, 0)

\* The caller passes the path of the parent as PARENT_PATH.
ParentPath(store, id) == store[id].created_path

\* The repository with transaction 2 under way: it has cloned "a".
Underway(store) ==
  svn_fs__dag_clone_child(store, svn_fs__dag_get_node(store, TxnRoot(2)),
                          ParentPath(store, TxnRoot(2)), NameA, 0, 2,
                          "none").store

InitDag ==
  /\ \/ fs = InitStore("file", TRUE)
     \/ fs = InitStore("dir", FALSE)
     \/ fs = Underway(InitStore("file", TRUE))
     \/ fs = Underway(InitStore("dir", FALSE))
  /\ dag = NoCall
  /\ walk = <<>>
  /\ IdleInst
  /\ IdleLock
  /\ IdleBaton

\* The caller makes its next call only after a call that returned no
\* error; FAIL names the store call that fails, if the call gets to it.
CanCall == dag.err = "" /\ dag.n < MaxOps

Returns(op, txn_id, target, name, arg, parent_path, fail, r) ==
  /\ fail = "none" \/ r.err = "io"
  /\ \A id \in DOMAIN r.store : id.node <= MaxNodeKey
  /\ fs' = r.store
  /\ dag' = Call(op, txn_id, target, name, arg, parent_path, fail, r, fs,
                 dag.n + 1)
  /\ UNCHANGED walk

\* The nodes a caller sets an entry to: committed nodes below the root.
EntryTargets(store) == { id \in DOMAIN store : id.txn = 0 /\ id.node # 1 }

\* The nodes a caller copies from: those of the youngest revision.
CopySources(store) == { id \in EntryTargets(store) : id.rev = 1 }

make_file ==
  \E id \in DOMAIN fs, name \in Names, txn_id \in Txns, fail \in FailSteps :
    /\ CanCall
    /\ Returns("make_file", txn_id, id, name, NoId, ParentPath(fs, id), fail,
               svn_fs__dag_make_file(fs, svn_fs__dag_get_node(fs, id),
                                     ParentPath(fs, id), name, txn_id, fail))

make_dir ==
  \E id \in DOMAIN fs, name \in Names, txn_id \in Txns, fail \in FailSteps :
    /\ CanCall
    /\ Returns("make_dir", txn_id, id, name, NoId, ParentPath(fs, id), fail,
               svn_fs__dag_make_dir(fs, svn_fs__dag_get_node(fs, id),
                                    ParentPath(fs, id), name, txn_id, fail))

dag_set_entry ==
  \E id \in DOMAIN fs, name \in Names, txn_id \in Txns :
  \E arg \in EntryTargets(fs), fail \in FailSteps :
    /\ CanCall
    /\ svn_path_is_single_path_component(name)
    /\ Returns("set_entry", txn_id, id, name, arg, <<>>, fail,
               svn_fs__dag_set_entry(fs, svn_fs__dag_get_node(fs, id), name,
                                     arg, txn_id, fail))

dag_copy ==
  \E id \in DOMAIN fs, name \in Names, txn_id \in Txns :
  \E arg \in CopySources(fs), fail \in FailSteps :
    /\ CanCall
    /\ svn_path_is_single_path_component(name)
    /\ Returns("copy", txn_id, id, name, arg, <<>>, fail,
               svn_fs__dag_copy(fs, svn_fs__dag_get_node(fs, id), name,
                                svn_fs__dag_get_node(fs, arg), txn_id, fail))

\* The caller of clone_child supplies a copy id under which the successor
\* of an immutable child gets an id that is not in use.
FreshSuccessor(store, id, name, copy_id, txn_id) ==
  LET e == dir_entry_id_from_node(store, svn_fs__dag_get_node(store, id), name)
  IN  \/ svn_fs__id_txn_id(e) # 0
      \/ Id(e.node, copy_id, txn_id, 0) \notin DOMAIN store

clone_child ==
  \E id \in DOMAIN fs, name \in Names, txn_id \in Txns :
  \E copy_id \in CopyIds, fail \in FailSteps :
    /\ CanCall
    /\ FreshSuccessor(fs, id, name, copy_id, txn_id)
    /\ Returns("clone_child", txn_id, id, name, Id(0, copy_id, 0, 0),
               ParentPath(fs, id), fail,
               svn_fs__dag_clone_child(fs, svn_fs__dag_get_node(fs, id),
                                       ParentPath(fs, id), name, copy_id,
                                       txn_id, fail))

get_edit_stream ==
  \E id \in DOMAIN fs, txn_id \in Txns, fail \in FailSteps :
    /\ CanCall
    /\ Returns("get_edit_stream", txn_id, id, <<>>, NoId, <<>>, fail,
               svn_fs__dag_get_edit_stream(fs, svn_fs__dag_get_node(fs, id),
                                           txn_id, fail))

finalize_edits ==
  \E id \in DOMAIN fs, txn_id \in Txns, fail \in FailSteps :
    /\ CanCall
    /\ Returns("finalize_edits", txn_id, id, <<>>, NoId, <<>>, fail,
               svn_fs__dag_finalize_edits(fs, svn_fs__dag_get_node(fs, id),
                                          txn_id, fail))

dag_open ==
  \E id \in DOMAIN fs, name \in Names, fail \in FailSteps :
    /\ CanCall
    /\ Returns("open", 0, id, name, NoId, <<>>, fail,
               svn_fs__dag_open(fs, svn_fs__dag_get_node(fs, id), name, fail))

NextDag ==
  /\ \/ make_file
     \/ make_dir
     \/ dag_set_entry
     \/ dag_copy
     \/ clone_child
     \/ get_edit_stream
     \/ finalize_edits
     \/ dag_open
  /\ UNCHANGED <<instVars, lockVars, batonVars>>

SpecDag == InitDag /\ [][NextDag]_vars

----------------------------------------------------------------------------
(* Claims checked under SpecDag                                            *)

DirOps == {"make_file", "make_dir", "set_entry", "copy", "clone_child"}
FileOps == {"get_edit_stream", "finalize_edits"}

\* The last call was a mutating call with arguments that are in order
\* apart from the transaction: a directory and a single-component name,
\* or a file.
WellFormedCall ==
  \/ /\ dag.op \in DirOps
     /\ dag.before[dag.target].kind = "dir"
     /\ svn_path_is_single_path_component(dag.name)
  \/ /\ dag.op \in FileOps
     /\ dag.before[dag.target].kind = "file"

\* C11: a mutating call for transaction T on a node whose id does not
\* carry T (a committed node or a node of another transaction) fails with
\* NotMutable and leaves the store as it was.
C11_ForeignNodeNotMutable ==
  (WellFormedCall /\ svn_fs__id_txn_id(dag.target) # dag.txn)
    => (dag.err = "NotMutable" /\ fs = dag.before)

MakeOps == {"make_file", "make_dir"}

MadeKind == IF dag.op = "make_dir" THEN "dir" ELSE "file"

\* The handle a caller gets on the node the last call was made on.
Target == svn_fs__dag_get_node(fs, dag.target)

\* C12: after make_file or make_dir returned without error, opening the
\* name in the same directory gives a node of the kind made whose
\* created_path is the parent path joined with the name, and making the
\* same name again in that directory, as a file or as a directory, fails
\* with AlreadyExists.
C12_MadeEntryOpensAndIsTaken ==
  (dag.op \in MakeOps /\ dag.err = "")
    => /\ LET opened == svn_fs__dag_open(fs, Target, dag.name, "none")
          IN  /\ opened.err = ""
              /\ opened.node.kind = MadeKind
              /\ get_node_revision(opened.node).kind = MadeKind
              /\ opened.node.created_path
                   = svn_path_join(dag.parent_path, dag.name)
       /\ \A is_dir \in BOOLEAN, txn_id \in Txns, fail \in FailSteps :
            make_entry(fs, Target, dag.parent_path, dag.name, is_dir, txn_id,
                       fail).err = "AlreadyExists"

C12_Witness ==
  /\ dag.op = "make_dir"
  /\ dag.err = ""
  /\ dag.name = <<"b">>
  /\ dag.name \in DOMAIN fs[dag.target].entries

\* The errors whose condition held when the last call was made.
MakeFailures ==
  LET parent == dag.before[dag.target]
  IN  {e \in {"NotSinglePathComponent", "NotDirectory", "NotMutable",
              "AlreadyExists"} :
         \/ e = "NotSinglePathComponent"
              /\ ~svn_path_is_single_path_component(dag.name)
         \/ e = "NotDirectory" /\ parent.kind # "dir"
         \/ e = "NotMutable" /\ svn_fs__id_txn_id(dag.target) = 0
         \/ e = "AlreadyExists" /\ dag.name \in DOMAIN parent.entries}

\* C13: make_file and make_dir fail with NotSinglePathComponent for a
\* name that is not a single path component, NotDirectory for a parent
\* that is not a directory, NotMutable for a parent whose id has no
\* transaction id and AlreadyExists for a name the parent already has;
\* the error returned is one whose condition holds, no node revision is
\* created and the parent's entries are as before.
C13_MakeFailsCleanly ==
  (dag.op \in MakeOps /\ MakeFailures # {})
    => /\ dag.err \in MakeFailures
       /\ DOMAIN fs = DOMAIN dag.before
       /\ fs[dag.target].entries = dag.before[dag.target].entries
       /\ fs = dag.before

C13_Witness ==
  /\ dag.op = "make_file"
  /\ dag.err = "AlreadyExists"
  /\ svn_fs__id_txn_id(dag.target) # 0
  /\ fs = dag.before

Entries(store, id) == svn_fs__fs_rep_contents_dir(store, store[id])

\* Every entry of every directory names a node revision of the store.
NoDanglingEntry(store) ==
  \A id \in DOMAIN store :
    \A n \in DOMAIN Entries(store, id) :
      Entries(store, id)[n].id \in DOMAIN store

\* C14: in every reachable state, the states left by a store call
\* failing part-way through make_file, make_dir or clone_child included,
\* every entry of every directory refers to a node revision that is in
\* the store; a make_file, make_dir or clone_child whose registration of
\* the child failed has created the child and left the parent's entries as
\* they were.
C14_EntriesReferToStoredNodes ==
  /\ NoDanglingEntry(fs)
  /\ (dag.op \in MakeOps \cup {"clone_child"} /\ dag.fail = "set_entry")
       => /\ dag.err = "io"
          /\ DOMAIN fs # DOMAIN dag.before
          /\ Entries(fs, dag.target) = Entries(dag.before, dag.target)

\* A child was created and the call failed before it was registered.
C14_Witness ==
  /\ dag.op = "clone_child"
  /\ dag.fail = "set_entry"
  /\ dag.err = "io"
  /\ DOMAIN fs # DOMAIN dag.before
  /\ Entries(fs, dag.target) = Entries(dag.before, dag.target)

\* The last call was a clone_child that returned without error on a child
\* whose id had no transaction id.
ClonedImmutable ==
  /\ dag.op = "clone_child"
  /\ dag.err = ""
  /\ svn_fs__id_txn_id(Entries(dag.before, dag.target)[dag.name].id) = 0

\* C15: after clone_child in transaction T on an immutable child, the
\* parent's entry for the name refers to an id carrying T and the
\* original node revision is still in the store; clone_child again for
\* the same parent, name and T returns that same id, adds no node
\* revision and leaves the parent's entries, and the store, unchanged.
C15_CloneOnceThenSame ==
  ClonedImmutable
    => LET original == Entries(dag.before, dag.target)[dag.name].id
           cloned == Entries(fs, dag.target)[dag.name].id
       IN  /\ svn_fs__id_txn_id(cloned) = dag.txn
           /\ cloned = dag.node.id
           /\ original \in DOMAIN fs
           /\ fs[original] = dag.before[original]
           /\ \A copy_id \in CopyIds :
                LET again == svn_fs__dag_clone_child(fs, Target,
                               dag.parent_path, dag.name, copy_id, dag.txn,
                               "none")
                IN  /\ again.err = ""
                    /\ again.node.id = cloned
                    /\ DOMAIN again.store = DOMAIN fs
                    /\ Entries(again.store, dag.target)
                         = Entries(fs, dag.target)
                    /\ again.store = fs

C15_Witness ==
  /\ ClonedImmutable
  /\ dag.node.id = Id(2, 1, 1, 0)
  /\ Entries(fs, dag.target)[NameA].id = Id(2, 1, 1, 0)

\* C16: when clone_child clones an immutable child c, the new node
\* revision has c's id as predecessor_id, an id with c's node key and the
\* copy id and transaction supplied, c's kind, and a predecessor_count one
\* greater than c's when c's is not negative, -1 when c's is -1.
C16_CloneBumpsCountOnce ==
  ClonedImmutable
    => LET c == Entries(dag.before, dag.target)[dag.name].id
           new == Entries(fs, dag.target)[dag.name].id
       IN  /\ fs[new].predecessor_id = c
           /\ new.node = c.node
           /\ new.copy = dag.arg.copy
           /\ svn_fs__id_txn_id(new) = dag.txn
           /\ fs[new].kind = dag.before[c].kind
           /\ fs[new].predecessor_count
                = IF dag.before[c].predecessor_count >= 0
                    THEN dag.before[c].predecessor_count + 1
                    ELSE -1

SameHistory(a, b) ==
  /\ a.predecessor_id = b.predecessor_id
  /\ a.predecessor_count = b.predecessor_count
  /\ a.created_path = b.created_path

\* C17: no call changes a node revision whose id has no transaction id:
\* each is in the store after the call as it was before, and after
\* clone_child, whether or not its store calls failed, the node revision
\* of the original child as cached in the handle the call worked on has
\* the predecessor_id, predecessor_count and created_path it had before.
C17_ImmutableNeverChanged ==
  /\ \A id \in DOMAIN dag.before :
       svn_fs__id_txn_id(id) = 0
         => id \in DOMAIN fs /\ fs[id] = dag.before[id]
  /\ (/\ dag.op = "clone_child"
      /\ dag.cur_entry # NoNode
      /\ svn_fs__id_txn_id(dag.cur_entry.id) = 0)
       => /\ SameHistory(fs[dag.cur_entry.id], dag.before[dag.cur_entry.id])
          /\ SameHistory(get_node_revision(dag.cur_entry),
                         dag.before[dag.cur_entry.id])

\* The number of calls of a callback that never sets DONE.
CallbackCalls(store, id) ==
  Len(svn_fs__dag_walk_predecessors(store, svn_fs__dag_get_node(store, id),
                                    FALSE))

\* C18: for every node revision n with predecessor_count >= 0, those made
\* by clone_child in either transaction included, walk_predecessors calls
\* the callback at most n.predecessor_count + 1 times.
C18_CountBoundsWalk ==
  \A id \in DOMAIN fs :
    fs[id].predecessor_count >= 0
      => CallbackCalls(fs, id) <= fs[id].predecessor_count + 1

\* Both transactions have cloned the child, whose chain is walked with
\* three calls.
C18_Witness ==
  \E c1 \in CopyIds, c2 \in CopyIds :
    /\ Id(2, c1, 1, 0) \in DOMAIN fs
    /\ Id(2, c2, 2, 0) \in DOMAIN fs
    /\ fs[Id(2, c2, 2, 0)].predecessor_count >= 0
    /\ CallbackCalls(fs, Id(2, c2, 2, 0)) = 3

\* The ids on the predecessor chain of a node revision, read off the
\* predecessor_id fields of the store.
RECURSIVE PredecessorIds(_, _)
PredecessorIds(store, id) ==
  IF store[id].predecessor_id = NoId THEN {}
  ELSE {store[id].predecessor_id}
         \cup PredecessorIds(store, store[id].predecessor_id)

\* C19: for all nodes a and b, is_ancestor(a, b) implies that the ids are
\* related and is_parent(a, b) implies is_ancestor(a, b); is_ancestor(a, b)
\* holds exactly when a's id is the id of a predecessor on b's chain, and
\* is_parent(a, b) exactly when a's id is b's predecessor_id.
C19_AncestryIsChainMembership ==
  \A ida \in DOMAIN fs, idb \in DOMAIN fs :
    LET a == svn_fs__dag_get_node(fs, ida)
        b == svn_fs__dag_get_node(fs, idb)
        is_ancestor == svn_fs__dag_is_ancestor(fs, a, b)
        is_parent == svn_fs__dag_is_parent(fs, a, b)
    IN  /\ is_ancestor => svn_fs_check_related(ida, idb)
        /\ is_parent => is_ancestor
        /\ is_ancestor <=> ida \in PredecessorIds(fs, idb)
        /\ is_parent <=> ida = fs[idb].predecessor_id

\* A clone of the child has the child's predecessor as an ancestor that
\* is not its parent.
C19_Witness ==
  /\ ClonedImmutable
  /\ dag.node.id.node = 2
  /\ svn_fs__dag_is_ancestor(fs, svn_fs__dag_get_node(fs, ChildOld), dag.node)
  /\ ~svn_fs__dag_is_parent(fs, svn_fs__dag_get_node(fs, ChildOld), dag.node)
  /\ svn_fs__dag_is_parent(fs, svn_fs__dag_get_node(fs, ChildRev), dag.node)

\* C21: open fails with NotSinglePathComponent for every name that has a
\* '/' or is "..", whether or not the directory has an entry of that
\* name, with NotFound for a well-formed name the directory has no entry
\* for, and with NotDirectory for a parent that is not a directory;
\* otherwise it returns a handle with the entry's id and the kind and
\* created_path of the node revision the entry refers to.
C21_OpenErrorsAndHandle ==
  (dag.op = "open" /\ dag.fail = "none")
    => LET parent == dag.before[dag.target]
           good == svn_path_is_single_path_component(dag.name)
       IN  /\ fs = dag.before
           /\ (parent.kind = "dir" /\ ~good)
                => dag.err = "NotSinglePathComponent"
           /\ (parent.kind = "dir" /\ good
                 /\ dag.name \notin DOMAIN Entries(dag.before, dag.target))
                => dag.err = "NotFound"
           /\ (parent.kind # "dir" /\ good) => dag.err = "NotDirectory"
           /\ (parent.kind = "dir" /\ good
                 /\ dag.name \in DOMAIN Entries(dag.before, dag.target))
                => LET id == Entries(dag.before, dag.target)[dag.name].id
                   IN  /\ dag.err = ""
                       /\ dag.node.id = id
                       /\ dag.node.kind = fs[id].kind
                       /\ dag.node.created_path = fs[id].created_path

----------------------------------------------------------------------------
(* SpecWalk: svn_fs__dag_walk_predecessors, one step of its loop at a time *)

MaxChain == 6

ChainId(r) == Id(2, 0, 0, r)

\* A file committed in revisions 0..MaxChain, each node revision the
\* successor of the one before.
ChainStore ==
  [id \in { ChainId(r) : r \in 0..MaxChain } |->
     NodeRev("file", IF id.rev = 0 THEN NoId ELSE ChainId(id.rev - 1),
             id.rev, <<"/", "a">>, NoEntries)]

\* The walk: where it is, the node it started from, THIS_NODE, DONE, and
\* the calls of the callback so far, each with the node passed and the
\* value of DONE the callback left.
Walk(at, start, this_node, done, calls) ==
  [pc |-> at, start |-> start, this_node |-> this_node, done |-> done,
   calls |-> calls]

NoWalk == Walk("idle", NoNode, NoNode, FALSE, <<>>)

InitWalk ==
  /\ fs = ChainStore
  /\ dag = <<>>
  /\ walk = NoWalk
  /\ IdleInst
  /\ IdleLock
  /\ IdleBaton

\* Variant: the loop goes on although DONE is set.
WalkLoops_ignoring_done(w) == w.this_node # NoNode

\* while ((! done) && this_node)
WalkLoops(w) == ~w.done /\ w.this_node # NoNode

walk_begin ==
  \E id \in DOMAIN fs :
    /\ walk.pc \in {"idle", "returned"}
    /\ walk' = Walk("loop", svn_fs__dag_get_node(fs, id),
                    svn_fs__dag_get_node(fs, id), FALSE, <<>>)
    /\ UNCHANGED <<fs, dag>>

\* THIS_NODE becomes its predecessor, or null when it has none.
walk_predecessor ==
  /\ walk.pc = "loop"
  /\ WalkLoops(walk)
  /\ LET noderev == get_node_revision(walk.this_node)
     IN  walk' = [walk EXCEPT
                    !.pc = "callback",
                    !.this_node =
                       IF noderev.predecessor_id # NoId
                         THEN svn_fs__dag_get_node(fs, noderev.predecessor_id)
                         ELSE NoNode]
  /\ UNCHANGED <<fs, dag>>

\* The callback is called with THIS_NODE and may set DONE.
walk_callback ==
  \E done \in BOOLEAN :
    /\ walk.pc = "callback"
    /\ walk' = [walk EXCEPT
                  !.pc = "loop",
                  !.done = done,
                  !.calls = Append(@, [node |-> walk.this_node,
                                       done |-> done])]
    /\ UNCHANGED <<fs, dag>>

walk_return ==
  /\ walk.pc = "loop"
  /\ ~WalkLoops(walk)
  /\ walk' = [walk EXCEPT !.pc = "returned"]
  /\ UNCHANGED <<fs, dag>>

NextWalk ==
  /\ \/ walk_begin
     \/ walk_predecessor
     \/ walk_callback
     \/ walk_return
  /\ UNCHANGED <<instVars, lockVars, batonVars>>

SpecWalk == InitWalk /\ [][NextWalk]_vars

\* The function runs on once called, and the callback returns.
SpecWalkFair ==
  /\ SpecWalk
  /\ WF_vars(walk_predecessor /\ UNCHANGED <<instVars, lockVars, batonVars>>)
  /\ WF_vars(walk_callback /\ UNCHANGED <<instVars, lockVars, batonVars>>)
  /\ WF_vars(walk_return /\ UNCHANGED <<instVars, lockVars, batonVars>>)

\* The ids of the predecessors of a node revision from the nearest to the
\* oldest, read off the predecessor_id fields, with the null id at the end.
RECURSIVE PredecessorSeq(_, _)
PredecessorSeq(store, id) ==
  IF store[id].predecessor_id = NoId THEN <<NoId>>
  ELSE <<store[id].predecessor_id>>
         \o PredecessorSeq(store, store[id].predecessor_id)

\* The calls made so far are for the predecessors in order, one each, a
\* call with the null node coming only after the oldest; no call follows
\* one that set DONE; and the function returns only after a call that set
\* DONE or after the call with the null node.
WalkCallsInOrder ==
  walk.pc # "idle"
    => LET chain == PredecessorSeq(fs, walk.start.id)
           n == Len(walk.calls)
       IN  /\ n <= Len(chain)
           /\ \A i \in 1..n : walk.calls[i].node.id = chain[i]
           /\ \A i \in 1..n : i < n => ~walk.calls[i].done
           /\ walk.pc = "returned"
                => /\ n >= 1
                   /\ walk.calls[n].done \/ walk.calls[n].node = NoNode
                   /\ (\A i \in 1..n : ~walk.calls[i].done)
                        => /\ n = Len(chain)
                           /\ walk.calls[n].node = NoNode
                           /\ \A i \in 1..(n - 1) :
                                walk.calls[i].node # NoNode

\* C20: walk_predecessors on a node with a finite predecessor chain
\* returns; the callback is called once per predecessor from the nearest
\* to the oldest, is not called again once it has set DONE, and when the
\* chain runs out before DONE is set it is called exactly once with the
\* null node, as the last call.
C20_WalkTerminatesInOrder ==
  /\ []WalkCallsInOrder
  /\ (walk.pc \in {"loop", "callback"}) ~> (walk.pc = "returned")

\* A walk from the youngest node revision returned after the call with
\* the null node, having called the callback for every predecessor.
C20_Witness ==
  /\ walk.pc = "returned"
  /\ walk.start.id = ChainId(MaxChain)
  /\ Len(walk.calls) = MaxChain + 1
  /\ walk.calls[MaxChain + 1].node = NoNode
  /\ ~walk.calls[MaxChain + 1].done

====
